---- MODULE Spec2Model ----
(***************************************************************************)
(* Cart-to-order checkout of the flower-shop storefront (App.tsx,          *)
(* CartPage.tsx, cartService.ts, AdminOrders.tsx, AdminProducts.tsx).      *)
(*                                                                         *)
(* Every remote call of a handler is one suspension point: the call is     *)
(* written to the handler's list of issued calls when it is made, and the  *)
(* store's effect and the continuation of the handler happen in the step   *)
(* in which the call returns.                                              *)
(***************************************************************************)
EXTENDS Integers, Sequences, FiniteSets, TLC

\* ------------------------------------------------------------------ bounds
MaxQty == 2          \* largest quantity of a cart line in an initial cart
MaxCheckouts == 1    \* checkout invocations per behaviour
MaxOps == 2          \* cart operations per behaviour (SpecCart)
MaxSessionCheckouts == 2   \* checkout invocations per behaviour (SpecSession)

\* ------------------------------------------------------- program constants
DELIVERY_FEE == 59

Products == {"A", "B"}
Prices == {100, 150}
NoUser == "none"
Users == {"u1"}
OtherUser == "u2"

\* products.price as first loaded by the storefront
InitialPrice(p) == IF p = "A" THEN 100 ELSE 150

VARIABLES
    cartItems,   \* App state: sequence of [product |-> [id, price], quantity]
    userId,      \* App state: NoUser or the signed-in user's id
    isLoggedIn,  \* App state
    orders,      \* App state: the in-memory order list
    dbCart,      \* rows of the remote carts table of the user
    dbOrders,    \* rows of the remote orders table
    dbItems,     \* rows of the remote order_items table
    dbProducts,  \* remote products table: product id -> price
    co,          \* the handleCheckout invocation (its closure, locals, position)
    fo,          \* the AdminOrders.fetchOrdersFromDb invocation
    nCheckouts,  \* checkout invocations started so far
    now,         \* Date.now()
    cart0,       \* SpecCart: the cart the operations of opLog started from
    opLog,       \* SpecCart: the cart handler calls completed so far
    ao,          \* the AdminOrders handler invocations, running or finished
    drivers,     \* AdminOrders state: drivers, driversLoading, loadDrivers in flight
    server,      \* the create-driver server: ADMIN_SECRET and its requests
    accounts,    \* the store's auth users, profiles rows and drivers rows
    rendered,    \* the cartItems of the last render, which the handlers closed over
    cartPage     \* CartPage state: selectedItems, and the cartItems its effect last saw

vars == <<cartItems, userId, isLoggedIn, orders, dbCart, dbOrders, dbItems,
          dbProducts, co, fo, nCheckouts, now, cart0, opLog, ao, drivers,
          server, accounts, rendered, cartPage>>

\* ----------------------------------------------------------------- helpers
Last(s) == s[Len(s)]

RECURSIVE SetToSeq(_)
SetToSeq(S) ==
    IF S = {} THEN <<>>
    ELSE LET x == CHOOSE y \in S : TRUE IN <<x>> \o SetToSeq(S \ {x})

\* Array.prototype.filter with the predicate "product id is in ids"
RECURSIVE FilterIn(_, _)
FilterIn(items, ids) ==
    IF items = <<>> THEN <<>>
    ELSE IF Head(items).product.id \in ids
         THEN <<Head(items)>> \o FilterIn(Tail(items), ids)
         ELSE FilterIn(Tail(items), ids)

\* Array.prototype.reduce((total, item) => total + price * quantity, acc)
RECURSIVE Reduce(_, _)
Reduce(items, acc) ==
    IF items = <<>> THEN acc
    ELSE Reduce(Tail(items), acc + Head(items).product.price * Head(items).quantity)

\* Math.round on the integer prices of products.price / order_items.price
Round(x) == x

CartLine(p, price, q) == [product |-> [id |-> p, price |-> price], quantity |-> q]

\* The carts with at most one line per product, at the prices first loaded
LinesOf(p) == {CartLine(p, InitialPrice(p), q) : q \in 1..MaxQty}
InitialCarts ==
    {<<>>}
    \cup {<<l>> : l \in LinesOf("A") \cup LinesOf("B")}
    \cup {<<a, b>> : a \in LinesOf("A"), b \in LinesOf("B")}
    \cup {<<b, a>> : a \in LinesOf("A"), b \in LinesOf("B")}

\* CartDatabaseItem: the carts rows that mirror a local cart of user uid
CartRows(uid, cart) ==
    {[user_id |-> uid, product_id |-> cart[i].product.id, quantity |-> cart[i].quantity] :
        i \in 1..Len(cart)}

\* the carts rows of the other users of the shop
OtherRows == {[user_id |-> OtherUser, product_id |-> "A", quantity |-> 1]}

\* ------------------------------------------------- handleCheckout: values
\* deliveryInfo?: any -- absent, or an object with or without deliveryOption
NoOption == ""
DeliveryInfos ==
    {[present |-> FALSE, deliveryOption |-> NoOption],
     [present |-> TRUE, deliveryOption |-> NoOption],
     [present |-> TRUE, deliveryOption |-> "delivery"],
     [present |-> TRUE, deliveryOption |-> "pickup"]}

\* deliveryInfo?.deliveryOption
OptionOf(deliveryInfo) ==
    IF deliveryInfo.present THEN deliveryInfo.deliveryOption ELSE NoOption

\* cartItems.filter((item) => selectedProductIds.includes(item.product.id))
SelectedItems(cart, selectedProductIds) == FilterIn(cart, selectedProductIds)

\* mutant: the fee is charged whatever the delivery option
CheckoutDeliveryFee_Always(deliveryInfo) == DELIVERY_FEE

\* (deliveryInfo?.deliveryOption === "delivery" ? 59 : 0)
CheckoutDeliveryFee(deliveryInfo) ==
    IF OptionOf(deliveryInfo) = "delivery" THEN DELIVERY_FEE ELSE 0

\* const total = selectedItems.reduce(...) + (... ? 59 : 0)
CheckoutTotal(selectedItems, deliveryInfo) ==
    Reduce(selectedItems, 0) + CheckoutDeliveryFee(deliveryInfo)

\* deliveryInfo?.deliveryOption || 'delivery'
DeliveryOptionOrDefault(deliveryInfo) ==
    IF OptionOf(deliveryInfo) = NoOption THEN "delivery" ELSE OptionOf(deliveryInfo)

\* CartPage: selectedCartItems, subtotal, deliveryFee, total
CartPageTotal(cart, selectedItems, selectedDeliveryOption) ==
    LET selectedCartItems == FilterIn(cart, selectedItems)
        subtotal == Reduce(selectedCartItems, 0)
        deliveryFee == IF selectedDeliveryOption = "delivery" THEN DELIVERY_FEE ELSE 0
    IN subtotal + deliveryFee

\* String(n): the decimal digits of n
DigitChar(d) == <<"0", "1", "2", "3", "4", "5", "6", "7", "8", "9">>[d + 1]
RECURSIVE NumToString(_)
NumToString(n) ==
    IF n < 10 THEN <<DigitChar(n)>> ELSE NumToString(n \div 10) \o <<DigitChar(n % 10)>>

\* s.padStart(width, '0')
RECURSIVE PadStart(_, _)
PadStart(s, width) == IF Len(s) >= width THEN s ELSE PadStart(<<"0">> \o s, width)

\* `ORD-${String((orders?.length ?? 0) + 1).padStart(3, '0')}`
OrderNumber(ordersLength) == <<"ORD-">> \o PadStart(NumToString(ordersLength + 1), 3)

DbId(n) == [src |-> "db", n |-> n]
LocalId(t) == [src |-> "local", n |-> t]
NoDriver == ""

\* orderPayload
OrderPayload(user, ordersLength, total, deliveryInfo) ==
    [user_id |-> user,
     order_number |-> OrderNumber(ordersLength),
     total_amount |-> Round(total),
     status |-> "Pending",
     payment |-> "Cash",
     delivery_option |-> DeliveryOptionOrDefault(deliveryInfo)]

\* the row the orders table returns for an inserted payload
\* (id uuid DEFAULT gen_random_uuid(), driver_id null)
InsertedRow(payload, id) ==
    [id |-> id,
     user_id |-> payload.user_id,
     order_number |-> payload.order_number,
     total_amount |-> payload.total_amount,
     status |-> payload.status,
     payment |-> payload.payment,
     delivery_option |-> payload.delivery_option,
     driver_id |-> NoDriver]

\* order_number text UNIQUE
OrderNumberFree(rows, payload) ==
    \A r \in rows : r.order_number # payload.order_number

\* itemsPayload = selectedItems.map(si => ({order_id, product_id, quantity, price}))
ItemsPayload(orderId, selectedItems) ==
    [i \in 1..Len(selectedItems) |->
        [order_id |-> orderId,
         product_id |-> selectedItems[i].product.id,
         quantity |-> selectedItems[i].quantity,
         price |-> Round(selectedItems[i].product.price)]]

\* newOrder
NewOrder(insertedOrder, selectedItems, total) ==
    [id |-> insertedOrder.id,
     orderId |-> insertedOrder.order_number,
     items |-> selectedItems,
     totalAmount |-> total,
     status |-> insertedOrder.status,
     payment |-> insertedOrder.payment,
     driver |-> "Unassigned",
     deliveryOption |-> insertedOrder.delivery_option]

\* mutant: the fallback total leaves the delivery fee out
FallbackOrder_NoFee(t, ordersLength, selectedItems, total, deliveryInfo) ==
    [id |-> [src |-> "local", n |-> t],
     orderId |-> OrderNumber(ordersLength),
     items |-> selectedItems,
     totalAmount |-> Reduce(selectedItems, 0),
     status |-> "Pending",
     payment |-> "Cash",
     driver |-> "Unassigned",
     deliveryOption |-> DeliveryOptionOrDefault(deliveryInfo)]

\* fallbackOrder
FallbackOrder(t, ordersLength, selectedItems, total, deliveryInfo) ==
    [id |-> LocalId(t),
     orderId |-> OrderNumber(ordersLength),
     items |-> selectedItems,
     totalAmount |-> total,
     status |-> "Pending",
     payment |-> "Cash",
     driver |-> "Unassigned",
     deliveryOption |-> DeliveryOptionOrDefault(deliveryInfo)]

\* mutant: the selected lines stay in the cart
RemoveSelected_KeepsAll(prev, selectedProductIds) == prev

\* prev.filter((item) => !selectedProductIds.includes(item.product.id))
RECURSIVE RemoveSelected(_, _)
RemoveSelected(prev, selectedProductIds) ==
    IF prev = <<>> THEN <<>>
    ELSE IF ~(Head(prev).product.id \in selectedProductIds)
         THEN <<Head(prev)>> \o RemoveSelected(Tail(prev), selectedProductIds)
         ELSE RemoveSelected(Tail(prev), selectedProductIds)

\* mutant: a missing session is not noticed
NoSession_Never(user) == FALSE

\* if (!user)
NoSession(user) == user = NoUser

\* if (profileError || !profile)
NoProfile(profileFound) == ~profileFound

\* if (orderErr) throw orderErr
OrderErr(ok) == ~ok

\* mutant: the error of the order_items insert is not looked at
ItemsErr_Ignored(ok) == FALSE

\* if (itemsErr) throw itemsErr
ItemsErr(ok) == ~ok

\* if (ordersErr) throw ordersErr
OrdersErr(ok) == ~ok

\* if (itemsPayload.length)
HasItems(itemsPayload) == Len(itemsPayload) > 0

\* if (userId)
HasUserId(uid) == uid # NoUser

\* mutant: the catch block deletes the order row it inserted
CatchRemoteCalls_Rollback(c) ==
    IF c.inserted # <<>> THEN <<[op |-> "delete", table |-> "orders", key |-> ""]>> ELSE <<>>

\* the remote calls the catch block makes: none
CatchRemoteCalls(c) == <<>>

Call(op, table, key) == [op |-> op, table |-> table, key |-> key]

IdleCheckout ==
    [pc |-> "idle", sel |-> {}, info |-> [present |-> FALSE, deliveryOption |-> NoOption],
     cart |-> <<>>, ordersLength |-> 0, userId |-> NoUser,
     items |-> <<>>, total |-> 0, user |-> NoUser, profile |-> "pending",
     inserted |-> <<>>, itemsResult |-> "none", order |-> <<>>,
     issued |-> <<>>, outcome |-> "none", current |-> "", todo |-> {}]

IdleFetch == [pc |-> "idle", orders |-> <<>>, data |-> <<>>]

\* CartPage is not on screen
NoCartPage == [mounted |-> FALSE, selectedItems |-> {}, cartItems |-> <<>>]

\* no auth user, profiles row or drivers row created by the server yet
NoAccounts == [users |-> {}, profiles |-> {}, drivers |-> {}]

\* useState<Driver[]>([]), useState(true) for driversLoading; no loadDrivers yet
NoDrivers == [pending |-> FALSE, loading |-> TRUE, list |-> {}]

\* ------------------------------------------------------------------- Init
Init ==
    \E cart \in InitialCarts, logged \in BOOLEAN :
        /\ isLoggedIn = logged
        /\ userId = IF logged THEN "u1" ELSE NoUser
        /\ cartItems = IF logged THEN cart ELSE <<>>
        /\ dbCart = CartRows("u1", cart) \cup OtherRows
        /\ orders = <<>>
        /\ dbOrders = {}
        /\ dbItems = <<>>
        /\ dbProducts = [p \in Products |-> InitialPrice(p)]
        /\ co = IdleCheckout
        /\ fo = IdleFetch
        /\ nCheckouts = 0
        /\ now = 1
        /\ cart0 = cartItems
        /\ opLog = <<>>
        /\ ao = <<>>
        /\ drivers = NoDrivers
        /\ server = [ADMIN_SECRET |-> "s3cret", reqs |-> <<>>]
        /\ accounts = NoAccounts
        /\ rendered = cartItems
        /\ cartPage = NoCartPage

\* ------------------------------------------------ handleCheckout: actions
\* catch (err) { ... fallbackOrder ... }
CatchBlock(c, reason) ==
    LET fallbackOrder == FallbackOrder(now, c.ordersLength, c.items, c.total, c.info)
    IN /\ orders' = Append(orders, fallbackOrder)
       /\ cartItems' = RemoveSelected(cartItems, c.sel)
       /\ now' = now + 1
       /\ co' = [c EXCEPT !.pc = "done", !.outcome = reason,
                          !.order = <<fallbackOrder>>,
                          !.issued = c.issued \o CatchRemoteCalls(c)]

\* newOrder, setOrders, setCartItems, and the first removeFromCart of the loop
SuccessBlock(c) ==
    LET newOrder == NewOrder(c.inserted[1], c.items, c.total)
        c1 == [c EXCEPT !.order = <<newOrder>>, !.outcome = "success"]
    IN /\ orders' = Append(orders, newOrder)
       /\ cartItems' = RemoveSelected(cartItems, c.sel)
       /\ now' = now
       /\ IF HasUserId(c.userId) /\ c.sel # {}
          THEN \E p \in c.sel :
                co' = [c1 EXCEPT !.pc = "removeFromCart", !.current = p,
                                 !.todo = c.sel \ {p},
                                 !.issued = Append(c.issued, Call("delete", "carts", p))]
          ELSE co' = [c1 EXCEPT !.pc = "done"]

\* the handler suspends at its next await
Suspend(c) ==
    /\ co' = c
    /\ UNCHANGED <<orders, cartItems, now>>

\* CartPage is shown by handleCartClick only when isLoggedIn; handlePlaceOrder
\* calls onCheckout(selectedProductIds, deliveryInfo). Runs to supabase.auth.getUser().
handleCheckout(selectedProductIds, deliveryInfo) ==
    /\ isLoggedIn
    /\ co.pc \in {"idle", "done"}
    /\ fo.pc = "idle"
    /\ nCheckouts' = nCheckouts + 1
    /\ LET selectedItems == SelectedItems(cartItems, selectedProductIds)
       IN co' = [IdleCheckout EXCEPT
                    !.pc = "getUser",
                    !.sel = selectedProductIds,
                    !.info = deliveryInfo,
                    !.cart = cartItems,
                    !.ordersLength = Len(orders),
                    !.userId = userId,
                    !.items = selectedItems,
                    !.total = CheckoutTotal(selectedItems, deliveryInfo),
                    !.issued = <<Call("getUser", "auth", "")>>]
    /\ UNCHANGED <<cartItems, userId, isLoggedIn, orders, dbCart, dbOrders, dbItems,
                   dbProducts, fo, now, cart0, ao, drivers, opLog,
                   server, accounts, rendered, cartPage>>

\* supabase.auth.getUser() returns
GetUserReturns(user) ==
    /\ co.pc = "getUser"
    /\ LET c == [co EXCEPT !.user = user]
       IN IF NoSession(user)
          THEN CatchBlock(c, "noSession")
          ELSE Suspend([c EXCEPT !.pc = "profile",
                                 !.issued = Append(c.issued, Call("select", "profiles", ""))])
    /\ UNCHANGED <<userId, isLoggedIn, dbCart, dbOrders, dbItems, dbProducts, fo,
                   nCheckouts, cart0, ao, drivers, opLog,
                   server, accounts, rendered, cartPage>>

\* the profiles select returns
ProfileReturns(profileFound) ==
    /\ co.pc = "profile"
    /\ LET c == [co EXCEPT !.profile = IF profileFound THEN "found" ELSE "missing"]
       IN IF NoProfile(profileFound)
          THEN CatchBlock(c, "noProfile")
          ELSE Suspend([c EXCEPT !.pc = "orderInsert",
                                 !.issued = Append(c.issued, Call("insert", "orders", ""))])
    /\ UNCHANGED <<userId, isLoggedIn, dbCart, dbOrders, dbItems, dbProducts, fo,
                   nCheckouts, cart0, ao, drivers, opLog,
                   server, accounts, rendered, cartPage>>

\* the orders insert returns
OrderInsertReturns(ok) ==
    /\ co.pc = "orderInsert"
    /\ LET orderPayload == OrderPayload(co.user, co.ordersLength, co.total, co.info)
           insertedOrder == InsertedRow(orderPayload, DbId(Cardinality(dbOrders) + 1))
           c == [co EXCEPT !.inserted = IF ok THEN <<insertedOrder>> ELSE <<>>]
       IN /\ ok => OrderNumberFree(dbOrders, orderPayload)
          /\ dbOrders' = IF ok THEN dbOrders \cup {insertedOrder} ELSE dbOrders
          /\ IF OrderErr(ok)
             THEN CatchBlock(c, "orderInsertFailed")
             ELSE IF HasItems(ItemsPayload(insertedOrder.id, c.items))
                  THEN Suspend([c EXCEPT
                         !.pc = "itemsInsert",
                         !.issued = Append(c.issued, Call("insert", "order_items", ""))])
                  ELSE SuccessBlock(c)
    /\ UNCHANGED <<userId, isLoggedIn, dbCart, dbItems, dbProducts, fo,
                   nCheckouts, cart0, ao, drivers, opLog,
                   server, accounts, rendered, cartPage>>

\* the order_items insert returns
ItemsInsertReturns(ok) ==
    /\ co.pc = "itemsInsert"
    /\ dbItems' = IF ok THEN dbItems \o ItemsPayload(co.inserted[1].id, co.items)
                  ELSE dbItems
    /\ LET c == [co EXCEPT !.itemsResult = IF ok THEN "ok" ELSE "failed"]
       IN IF ItemsErr(ok)
          THEN CatchBlock(c, "itemsInsertFailed")
          ELSE SuccessBlock(c)
    /\ UNCHANGED <<userId, isLoggedIn, dbCart, dbOrders, dbProducts, fo,
                   nCheckouts, cart0, ao, drivers, opLog,
                   server, accounts, rendered, cartPage>>

\* cartService.removeFromCart: the carts delete; an error is logged and swallowed
DeleteCartRows(rows, uid, productId, ok) ==
    IF ok THEN {r \in rows : ~(r.user_id = uid /\ r.product_id = productId)} ELSE rows

\* a removeFromCart of the loop over selectedProductIds returns
RemoveFromCartReturns(ok) ==
    /\ co.pc = "removeFromCart"
    /\ dbCart' = DeleteCartRows(dbCart, co.userId, co.current, ok)
    /\ IF co.todo = {}
       THEN co' = [co EXCEPT !.pc = "done", !.current = ""]
       ELSE \E p \in co.todo :
             co' = [co EXCEPT !.current = p, !.todo = co.todo \ {p},
                              !.issued = Append(co.issued, Call("delete", "carts", p))]
    /\ UNCHANGED <<cartItems, userId, isLoggedIn, orders, dbOrders, dbItems,
                   dbProducts, fo, nCheckouts, now, cart0, ao, drivers, opLog,
                   server, accounts, rendered, cartPage>>

\* ------------------------------------------- AdminProducts: price of a product
\* supabase.from('products').update({ price: Math.round(Number(formData.price)) })
\* The admin dashboard replaces the storefront (renderPage: isAdmin && currentPage
\* === "admin"): its handlers run between the storefront's checkouts.
UpdateProductPrice(productId, price) ==
    /\ co.pc \in {"idle", "done"}
    /\ productId \in DOMAIN dbProducts
    /\ dbProducts[productId] # Round(price)
    /\ dbProducts' = [dbProducts EXCEPT ![productId] = Round(price)]
    /\ UNCHANGED <<cartItems, userId, isLoggedIn, orders, dbCart, dbOrders, dbItems,
                   co, fo, nCheckouts, now, cart0, ao, drivers, opLog,
                   server, accounts, rendered, cartPage>>

\* ---------------------------------------------- AdminOrders.fetchOrdersFromDb
\* .order("created_at", { ascending: false }): the newest row first
RECURSIVE NewestFirst(_)
NewestFirst(rows) ==
    IF rows = {} THEN <<>>
    ELSE LET r == CHOOSE x \in rows : \A y \in rows : y.id.n <= x.id.n
         IN <<r>> \o NewestFirst(rows \ {r})

\* order_items(*) of one order
ItemsOfOrder(items, orderId) == SelectSeq(items, LAMBDA it : it.order_id = orderId)

\* select `*, order_items(*)` from orders
OrdersWithItems(rows, items) ==
    LET sorted == NewestFirst(rows)
    IN [i \in 1..Len(sorted) |->
          [o |-> sorted[i], order_items |-> ItemsOfOrder(items, sorted[i].id)]]

\* allProductIds
ProductIdsOf(ordersData) ==
    UNION {{ordersData[i].order_items[j].product_id :
                j \in 1..Len(ordersData[i].order_items)} : i \in 1..Len(ordersData)}

\* productsMap[it.product_id] ?? { id: it.product_id, price: it.price || 0 }
MappedItem(productsMap, it) ==
    [product |-> IF it.product_id \in DOMAIN productsMap
                 THEN [id |-> it.product_id, price |-> productsMap[it.product_id]]
                 ELSE [id |-> it.product_id, price |-> it.price],
     quantity |-> it.quantity]

\* mapped: one local Order per fetched row
MappedOrder(productsMap, d) ==
    [id |-> d.o.id,
     orderId |-> d.o.order_number,
     items |-> [j \in 1..Len(d.order_items) |-> MappedItem(productsMap, d.order_items[j])],
     totalAmount |-> d.o.total_amount,
     status |-> d.o.status,
     payment |-> d.o.payment,
     driver |-> IF d.o.driver_id = NoDriver THEN "Unassigned" ELSE d.o.driver_id,
     deliveryOption |-> d.o.delivery_option]

\* merged = [...mapped, ...orders.filter(o => !dbIds.has(o.id))]
Merged(productsMap, ordersData, closureOrders) ==
    LET mapped == [i \in 1..Len(ordersData) |-> MappedOrder(productsMap, ordersData[i])]
        dbIds == {mapped[i].id : i \in 1..Len(mapped)}
    IN mapped \o SelectSeq(closureOrders, LAMBDA o : o.id \notin dbIds)

\* AdminOrders mounts with fresh component state: fetchOrdersFromDb() runs to
\* the orders select and loadDrivers() to the drivers select
FetchOrdersStart ==
    /\ co.pc \in {"idle", "done"}
    /\ fo.pc = "idle"
    /\ fo' = [pc |-> "orders", orders |-> orders, data |-> <<>>]
    /\ drivers' = [pending |-> TRUE, loading |-> TRUE, list |-> {}]
    /\ UNCHANGED <<cartItems, userId, isLoggedIn, orders, dbCart, dbOrders, dbItems,
                   dbProducts, co, nCheckouts, now, cart0, ao, opLog,
                   server, accounts, rendered, cartPage>>

\* the orders select returns
FetchOrdersReturns(ok) ==
    /\ fo.pc = "orders"
    /\ LET ordersData == OrdersWithItems(dbOrders, dbItems)
       IN IF OrdersErr(ok)
          THEN /\ fo' = IdleFetch
               /\ orders' = orders
          ELSE IF ProductIdsOf(ordersData) # {}
               THEN /\ fo' = [fo EXCEPT !.pc = "products", !.data = ordersData]
                    /\ orders' = orders
               ELSE /\ fo' = IdleFetch
                    /\ orders' = Merged(<<>>, ordersData, fo.orders)
    /\ UNCHANGED <<cartItems, userId, isLoggedIn, dbCart, dbOrders, dbItems,
                   dbProducts, co, nCheckouts, now, cart0, ao, drivers, opLog,
                   server, accounts, rendered, cartPage>>

\* the products select returns; its error is not looked at
FetchProductsReturns(ok) ==
    /\ fo.pc = "products"
    /\ LET productsMap ==
               IF ok
               THEN [p \in ProductIdsOf(fo.data) \cap DOMAIN dbProducts |-> dbProducts[p]]
               ELSE <<>>
       IN orders' = Merged(productsMap, fo.data, fo.orders)
    /\ fo' = IdleFetch
    /\ UNCHANGED <<cartItems, userId, isLoggedIn, dbCart, dbOrders, dbItems,
                   dbProducts, co, nCheckouts, now, cart0, ao, drivers, opLog,
                   server, accounts, rendered, cartPage>>

\* ------------------------------------------------------- cart handlers
\* prev.find((item) => item.product.id === product.id)
HasLine(items, productId) == \E i \in 1..Len(items) : items[i].product.id = productId

FindLine(items, productId) ==
    items[CHOOSE i \in 1..Len(items) :
            /\ items[i].product.id = productId
            /\ \A j \in 1..(i - 1) : items[j].product.id # productId]

\* mutant: an existing line takes the added quantity instead of growing by it
AddToCartUpdater_Overwrite(prev, product, quantity) ==
    IF \E i \in 1..Len(prev) : prev[i].product.id = product.id
    THEN [i \in 1..Len(prev) |->
            IF prev[i].product.id = product.id
            THEN [prev[i] EXCEPT !.quantity = quantity]
            ELSE prev[i]]
    ELSE Append(prev, [product |-> product, quantity |-> quantity])

\* mutant: the updater appends a line whether or not the product has one
AddToCartUpdater_Append(prev, product, quantity) ==
    Append(prev, [product |-> product, quantity |-> quantity])

\* the updater handleAddToCart passes to setCartItems
AddToCartUpdater(prev, product, quantity) ==
    IF HasLine(prev, product.id)
    THEN [i \in 1..Len(prev) |->
            IF prev[i].product.id = product.id
            THEN [prev[i] EXCEPT !.quantity = prev[i].quantity + quantity]
            ELSE prev[i]]
    ELSE Append(prev, [product |-> product, quantity |-> quantity])

\* the updater handleUpdateQuantity passes to setCartItems
UpdateQuantityUpdater(prev, productId, newQuantity) ==
    [i \in 1..Len(prev) |->
        IF prev[i].product.id = productId
        THEN [prev[i] EXCEPT !.quantity = newQuantity]
        ELSE prev[i]]

\* mutant: the updater drops the first line when no line matches
RemoveFromCartUpdater_DropsFirst(prev, productId) ==
    IF \E i \in 1..Len(prev) : prev[i].product.id = productId
    THEN SelectSeq(prev, LAMBDA item : item.product.id # productId)
    ELSE IF prev = <<>> THEN prev ELSE Tail(prev)

\* prev.filter((item) => item.product.id !== productId)
RemoveFromCartUpdater(prev, productId) ==
    SelectSeq(prev, LAMBDA item : item.product.id # productId)

\* mutant: a quantity of 0 is let through
RejectsQuantity_Negative(newQuantity) == newQuantity < 0

\* if (newQuantity < 1) return
RejectsQuantity(newQuantity) == newQuantity < 1

\* a call of cartService to the carts table, with the result the store gave
CartCall(op, productId, ok) ==
    [op |-> op, table |-> "carts", key |-> productId, ok |-> ok]

\* the key of the carts table: (user, product) -> quantity
CartsKey(r) == <<r.user_id, r.product_id>>

\* cartService.addToCart: upsert of the (user, product) row; an error is swallowed
UpsertCartRow(rows, uid, productId, quantity, ok) ==
    IF ok
    THEN {r \in rows : CartsKey(r) # <<uid, productId>>}
         \cup {[user_id |-> uid, product_id |-> productId, quantity |-> quantity]}
    ELSE rows

\* mutant: the service lets the error of a failed call reach its caller
CartServiceThrows_Rethrows(ok) == ~ok

\* try { ... if (error) throw error } catch (err) { console.error(...) }:
\* addToCart, updateCartQuantity and removeFromCart never throw
CartServiceThrows(ok) == FALSE

\* cartService.updateCartQuantity: quantity < 1 removes the row, otherwise the
\* quantity of the matching rows is set; an error is swallowed
UpdateCartRows(rows, uid, productId, quantity, ok) ==
    IF quantity < 1
    THEN DeleteCartRows(rows, uid, productId, ok)
    ELSE IF ok
         THEN {IF r.user_id = uid /\ r.product_id = productId
               THEN [r EXCEPT !.quantity = quantity] ELSE r : r \in rows}
         ELSE rows

\* the call updateCartQuantity makes: the delete of removeFromCart, or the update
UpdateCartCalls(productId, quantity, ok) ==
    IF quantity < 1
    THEN <<CartCall("delete", productId, ok)>>
    ELSE <<CartCall("update", productId, ok)>>

\* mutant: the remote mirror runs whether or not a user id is set
MirrorsToRemote_Always(uid) == TRUE

\* if (userId): sync to database if logged in
MirrorsToRemote(uid) == HasUserId(uid)

\* what a handler leaves in opLog: its name, its arguments, its remote calls,
\* and whether an awaited cart service call threw into it
LogEntry(op, id, quantity, calls) ==
    [op |-> op, id |-> id, quantity |-> quantity, calls |-> calls,
     raised |-> \E i \in 1..Len(calls) : calls[i].table = "carts"
                                         /\ calls[i].op # "select"
                                         /\ CartServiceThrows(calls[i].ok)]

\* handleAddToCart(product, quantity), called from a render whose cartItems
\* were closureItems: the local update goes through the updater (prev), the
\* remote mirror is chosen from the cartItems of the closure
AddToCartCalled(closureItems, product, quantity, ok) ==
    /\ Len(opLog) < MaxOps
    /\ cartItems' = AddToCartUpdater(cartItems, product, quantity)
    /\ LET existing == HasLine(closureItems, product.id)
           q == IF existing
                THEN FindLine(closureItems, product.id).quantity + quantity
                ELSE quantity
           calls == IF ~MirrorsToRemote(userId) THEN <<>>
                    ELSE IF existing THEN UpdateCartCalls(product.id, q, ok)
                    ELSE <<CartCall("upsert", product.id, ok)>>
       IN /\ dbCart' =
               IF MirrorsToRemote(userId)
               THEN IF existing
                    THEN UpdateCartRows(dbCart, userId, product.id, q, ok)
                    ELSE UpsertCartRow(dbCart, userId, product.id, quantity, ok)
               ELSE dbCart
          /\ opLog' = Append(opLog, LogEntry("add", product.id, quantity, calls))
    /\ UNCHANGED <<userId, isLoggedIn, orders, dbOrders, dbItems, dbProducts, co, fo,
                   nCheckouts, now, cart0, ao, drivers,
                   server, accounts, rendered, cartPage>>

\* handleAddToCart(product, quantity), called after the component rendered
\* the current cart
handleAddToCart(product, quantity, ok) ==
    AddToCartCalled(cartItems, product, quantity, ok)

\* handleUpdateQuantity(productId, newQuantity)
handleUpdateQuantity(productId, newQuantity, ok) ==
    /\ Len(opLog) < MaxOps
    /\ IF RejectsQuantity(newQuantity)
       THEN /\ cartItems' = cartItems
            /\ dbCart' = dbCart
            /\ opLog' = Append(opLog, LogEntry("update", productId, newQuantity, <<>>))
       ELSE /\ cartItems' = UpdateQuantityUpdater(cartItems, productId, newQuantity)
            /\ dbCart' = IF MirrorsToRemote(userId)
                         THEN UpdateCartRows(dbCart, userId, productId, newQuantity, ok)
                         ELSE dbCart
            /\ opLog' = Append(opLog, LogEntry("update", productId, newQuantity,
                            IF MirrorsToRemote(userId)
                            THEN UpdateCartCalls(productId, newQuantity, ok)
                            ELSE <<>>))
    /\ UNCHANGED <<userId, isLoggedIn, orders, dbOrders, dbItems, dbProducts, co, fo,
                   nCheckouts, now, cart0, ao, drivers,
                   server, accounts, rendered, cartPage>>

\* handleRemoveFromCart(productId)
handleRemoveFromCart(productId, ok) ==
    /\ Len(opLog) < MaxOps
    /\ cartItems' = RemoveFromCartUpdater(cartItems, productId)
    /\ dbCart' = IF MirrorsToRemote(userId)
                 THEN DeleteCartRows(dbCart, userId, productId, ok)
                 ELSE dbCart
    /\ opLog' = Append(opLog, LogEntry("remove", productId, 0,
                    IF MirrorsToRemote(userId)
                    THEN <<CartCall("delete", productId, ok)>>
                    ELSE <<>>))
    /\ UNCHANGED <<userId, isLoggedIn, orders, dbOrders, dbItems, dbProducts, co, fo,
                   nCheckouts, now, cart0, ao, drivers,
                   server, accounts, rendered, cartPage>>

\* ------------------------------------------------- handleLogin: cart load
\* mutant: the load finds no row
FetchUserCart_NoRows(rows, uid, ok) == <<>>

\* cartService.fetchUserCart: the carts rows of the user; [] when the select fails
FetchUserCart(rows, uid, ok) ==
    IF ok THEN SetToSeq({r \in rows : r.user_id = uid}) ELSE <<>>

\* the data of the products select: the catalog, or no data when it fails
ProductsFromDb(products, ok) == IF ok THEN products ELSE <<>>

\* mutant: a row whose product is not in the catalog is kept, at price 0
MappedItems_KeepsMissing(cartData, productsFromDb) ==
    [i \in 1..Len(cartData) |->
        [product |-> [id |-> cartData[i].product_id,
                      price |-> IF cartData[i].product_id \in DOMAIN productsFromDb
                                THEN productsFromDb[cartData[i].product_id] ELSE 0],
         quantity |-> cartData[i].quantity]]

\* cartData.forEach(item => { const product = productsFromDb?.find(...);
\*                            if (product) mappedItems.push({product, quantity}) })
RECURSIVE MappedItems(_, _)
MappedItems(cartData, productsFromDb) ==
    IF cartData = <<>> THEN <<>>
    ELSE LET item == Head(cartData)
             rest == MappedItems(Tail(cartData), productsFromDb)
         IN IF item.product_id \in DOMAIN productsFromDb
            THEN <<[product |-> [id |-> item.product_id,
                                 price |-> productsFromDb[item.product_id]],
                    quantity |-> item.quantity]>> \o rest
            ELSE rest

\* the cart the async block of handleLogin passes to setCartItems
LoadedCart(rows, uid, products, cartOk, productsOk) ==
    LET cartData == FetchUserCart(rows, uid, cartOk)
    IN IF Len(cartData) = 0
       THEN <<>>
       ELSE MappedItems(cartData, ProductsFromDb(products, productsOk))

\* the remote calls of the cart load
LoadCalls(rows, uid, cartOk, productsOk) ==
    <<[op |-> "select", table |-> "carts", key |-> uid, ok |-> cartOk]>>
    \o (IF Len(FetchUserCart(rows, uid, cartOk)) = 0 THEN <<>>
        ELSE <<[op |-> "select", table |-> "products", key |-> "", ok |-> productsOk]>>)

\* handleLogin(asAdmin, newUserData, id): if (id) the user id is set and the
\* cart is loaded
handleLogin(id, cartOk, productsOk) ==
    /\ Len(opLog) < MaxOps
    /\ isLoggedIn' = TRUE
    /\ IF id # NoUser
       THEN /\ userId' = id
            /\ cartItems' = LoadedCart(dbCart, id, dbProducts, cartOk, productsOk)
            /\ opLog' = Append(opLog, LogEntry("login", id, 0,
                            LoadCalls(dbCart, id, cartOk, productsOk)))
       ELSE /\ userId' = userId
            /\ cartItems' = cartItems
            /\ opLog' = Append(opLog, LogEntry("login", id, 0, <<>>))
    /\ UNCHANGED <<orders, dbCart, dbOrders, dbItems, dbProducts, co, fo,
                   nCheckouts, now, cart0, ao, drivers,
                   server, accounts, rendered, cartPage>>

\* handleLogout
handleLogout ==
    /\ Len(opLog) < MaxOps
    /\ isLoggedIn' = FALSE
    /\ userId' = NoUser
    /\ cartItems' = <<>>
    /\ opLog' = Append(opLog, LogEntry("logout", "", 0, <<>>))
    /\ UNCHANGED <<orders, dbCart, dbOrders, dbItems, dbProducts, co, fo,
                   nCheckouts, now, cart0, ao, drivers,
                   server, accounts, rendered, cartPage>>

\* AdminProducts.handleDelete: the products row is deleted unless an order_items
\* row references it (product_id uuid REFERENCES products(id))
DeleteProduct(productId) ==
    /\ Len(opLog) < MaxOps
    /\ productId \in DOMAIN dbProducts
    /\ \A k \in 1..Len(dbItems) : dbItems[k].product_id # productId
    /\ dbProducts' = [p \in DOMAIN dbProducts \ {productId} |-> dbProducts[p]]
    /\ opLog' = Append(opLog, LogEntry("deleteProduct", productId, 0, <<>>))
    /\ UNCHANGED <<cartItems, userId, isLoggedIn, orders, dbCart, dbOrders, dbItems,
                   co, fo, nCheckouts, now, cart0, ao, drivers,
                   server, accounts, rendered, cartPage>>

\* ----------------------------------------------- AdminOrders: the handlers
Statuses == {"Pending", "Confirmed", "Preparing", "Ready", "Delivered"}

\* the drivers table joined with profiles, as fetchDrivers maps it
DbDrivers == {[id |-> "d1", profileId |-> "p1", name |-> "Dan"]}

\* the values handleAssignDriver may be given: the empty option, a driver of
\* the table, an id no driver has
DriverIdArgs == {""} \cup {d.id : d \in DbDrivers} \cup {"d0"}

\* loadDrivers: setDrivers(driversList) unless fetchDrivers throws; finally
\* setDriversLoading(false)
LoadDriversReturns(ok) ==
    /\ drivers.pending
    /\ drivers' = [pending |-> FALSE, loading |-> FALSE,
                   list |-> IF ok THEN DbDrivers ELSE drivers.list]
    /\ UNCHANGED <<cartItems, userId, isLoggedIn, orders, dbCart, dbOrders, dbItems,
                   dbProducts, co, fo, nCheckouts, now, cart0, opLog, ao,
                   server, accounts, rendered, cartPage>>

\* the order of the rendered list a row's controls belong to
HasOrder(list, orderId) == \E k \in 1..Len(list) : list[k].id = orderId
OrderOf(list, orderId) == list[CHOOSE k \in 1..Len(list) : list[k].id = orderId]

\* a handler invocation: its arguments, the orders prop it closed over, the
\* remote calls it issued, where it stands, and how it ended
Invocation(op, orderId, arg, closure, pc, issued, outcome) ==
    [op |-> op, orderId |-> orderId, arg |-> arg, orders |-> closure,
     pc |-> pc, issued |-> issued, returned |-> <<>>, selected |-> <<>>,
     outcome |-> outcome]

\* mutant: the error of the remote mutation is not looked at
AdminErr_Ignored(ok) == FALSE

\* if (error) throw error
AdminErr(ok) == ~ok

\* mutant: the list is handed back as it was
SetStatusLocal_Unchanged(list, orderId, status) == list

\* mutant: an order that left Pending is not set back to Pending
SetStatusLocal_NoWayBack(list, orderId, status) ==
    [k \in 1..Len(list) |->
        IF list[k].id = orderId /\ status # "Pending"
        THEN [list[k] EXCEPT !.status = status] ELSE list[k]]

\* orders.map(order => order.id === orderId ? { ...order, status } : order)
SetStatusLocal(list, orderId, status) ==
    [k \in 1..Len(list) |->
        IF list[k].id = orderId THEN [list[k] EXCEPT !.status = status] ELSE list[k]]

\* mutant: the driver's name is written on every order of the list
SetDriverLocal_AllOrders(list, orderId, name) ==
    [k \in 1..Len(list) |-> [list[k] EXCEPT !.driver = name]]

\* orders.map(order => order.id === orderId ? { ...order, driver: name } : order)
SetDriverLocal(list, orderId, name) ==
    [k \in 1..Len(list) |->
        IF list[k].id = orderId THEN [list[k] EXCEPT !.driver = name] ELSE list[k]]

\* orders.filter(order => order.id !== deleteOrderId)
RemoveOrderLocal(list, orderId) == SelectSeq(list, LAMBDA o : o.id # orderId)

\* supabase.from('orders').update({ status }).eq('id', orderId)
UpdateStatusRows(rows, orderId, status, ok) ==
    IF ok
    THEN {IF r.id = orderId THEN [r EXCEPT !.status = status] ELSE r : r \in rows}
    ELSE rows

\* driverService.assignDriverToOrder(orderId, profileId): the order's driver_id
AssignDriverToOrder(rows, orderId, profileId, ok) ==
    IF ok
    THEN {IF r.id = orderId THEN [r EXCEPT !.driver_id = profileId] ELSE r : r \in rows}
    ELSE rows

\* supabase.from('order_items').delete().eq('order_id', deleteOrderId)
DeleteItemRows(items, orderId, ok) ==
    IF ok THEN SelectSeq(items, LAMBDA it : it.order_id # orderId) ELSE items

\* supabase.from('orders').delete().eq('id', deleteOrderId): the row is deleted,
\* or no error comes back and a row-level policy keeps the row, or an error
DeleteOutcomes == {"deleted", "kept", "error"}
DeleteOrderRows(rows, orderId, outcome) ==
    IF outcome = "deleted" THEN {r \in rows : r.id # orderId} ELSE rows

\* mutant: the order row is deleted whatever the order_items delete returned
ItemsError_Ignored(ok) == FALSE

\* if (itemsError) throw itemsError
ItemsError(ok) == ~ok

\* if (orderError) throw orderError
OrderError(outcome) == outcome = "error"

\* the verification select(...).single(): data when the select works and the
\* row is there, an error otherwise (no row, or the select failed)
VerifyOrder(rows, orderId, ok) ==
    [verifyError |-> ~(ok /\ \E r \in rows : r.id = orderId),
     verifyOrder |-> ok /\ \E r \in rows : r.id = orderId]

\* if (!verifyError && verifyOrder) throw new Error('Order deletion failed ...')
StillExists(v) == ~v.verifyError /\ v.verifyOrder

\* the invocation i of ao moves on: the result of its call is noted, and it
\* ends in its catch block (toast.error), ends well, or issues its next call
Returned(inv, result) == [inv EXCEPT !.returned = Append(inv.returned, result)]
Advance(i, inv) == ao' = [ao EXCEPT ![i] = inv]
Failed(inv) == [inv EXCEPT !.pc = "done", !.outcome = "error"]
Succeeded(inv) == [inv EXCEPT !.pc = "done", !.outcome = "success"]
Issue(inv, pc, call) == [inv EXCEPT !.pc = pc, !.issued = Append(inv.issued, call)]
ResultOf(ok) == IF ok THEN "ok" ELSE "error"

\* handleUpdateStatus(orderId, newStatus): the status select of a row changes;
\* runs to the orders update
handleUpdateStatus(orderId, newStatus) ==
    /\ Len(ao) < MaxOps
    /\ HasOrder(orders, orderId)
    /\ OrderOf(orders, orderId).status # newStatus
    /\ ao' = Append(ao, Invocation("setStatus", orderId, newStatus, orders, "update",
                        <<Call("update", "orders", orderId)>>, "none"))
    /\ UNCHANGED <<cartItems, userId, isLoggedIn, orders, dbCart, dbOrders, dbItems,
                   dbProducts, co, fo, nCheckouts, now, cart0, opLog, drivers,
                   server, accounts, rendered, cartPage>>

\* the orders update of handleUpdateStatus returns
UpdateStatusReturns(i, ok) ==
    /\ ao[i].op = "setStatus"
    /\ ao[i].pc = "update"
    /\ dbOrders' = UpdateStatusRows(dbOrders, ao[i].orderId, ao[i].arg, ok)
    /\ IF AdminErr(ok)
       THEN /\ orders' = orders
            /\ Advance(i, Failed(Returned(ao[i], ResultOf(ok))))
       ELSE /\ orders' = SetStatusLocal(ao[i].orders, ao[i].orderId, ao[i].arg)
            /\ Advance(i, Succeeded(Returned(ao[i], ResultOf(ok))))
    /\ UNCHANGED <<cartItems, userId, isLoggedIn, dbCart, dbItems,
                   dbProducts, co, fo, nCheckouts, now, cart0, opLog, drivers,
                   server, accounts, rendered, cartPage>>

\* handleAcceptOrder(orderId): the Accept button of a Pending row; runs to the
\* orders update
handleAcceptOrder(orderId) ==
    /\ Len(ao) < MaxOps
    /\ HasOrder(orders, orderId)
    /\ OrderOf(orders, orderId).status = "Pending"
    /\ ao' = Append(ao, Invocation("accept", orderId, "Confirmed", orders, "update",
                        <<Call("update", "orders", orderId)>>, "none"))
    /\ UNCHANGED <<cartItems, userId, isLoggedIn, orders, dbCart, dbOrders, dbItems,
                   dbProducts, co, fo, nCheckouts, now, cart0, opLog, drivers,
                   server, accounts, rendered, cartPage>>

\* the orders update of handleAcceptOrder returns
AcceptOrderReturns(i, ok) ==
    /\ ao[i].op = "accept"
    /\ ao[i].pc = "update"
    /\ dbOrders' = UpdateStatusRows(dbOrders, ao[i].orderId, "Confirmed", ok)
    /\ IF AdminErr(ok)
       THEN /\ orders' = orders
            /\ Advance(i, Failed(Returned(ao[i], ResultOf(ok))))
       ELSE /\ orders' = SetStatusLocal(ao[i].orders, ao[i].orderId, "Confirmed")
            /\ Advance(i, Succeeded(Returned(ao[i], ResultOf(ok))))
    /\ UNCHANGED <<cartItems, userId, isLoggedIn, dbCart, dbItems,
                   dbProducts, co, fo, nCheckouts, now, cart0, opLog, drivers,
                   server, accounts, rendered, cartPage>>

\* drivers.find(d => d.id === driverId)
HasDriver(list, driverId) == \E d \in list : d.id = driverId
FindDriver(list, driverId) == CHOOSE d \in list : d.id = driverId

\* handleAssignDriver(orderId, driverId): the driver select of a row, shown when
\* the order is Confirmed or has a driver and enabled once the drivers loaded.
\* An empty driverId returns; an unknown one throws into the catch block;
\* otherwise runs to assignDriverToOrder
handleAssignDriver(orderId, driverId) ==
    /\ Len(ao) < MaxOps
    /\ HasOrder(orders, orderId)
    /\ \/ OrderOf(orders, orderId).status = "Confirmed"
       \/ OrderOf(orders, orderId).driver # "Unassigned"
    /\ ~drivers.loading
    /\ LET inv == Invocation("assignDriver", orderId, driverId, orders, "done",
                             <<>>, "none")
       IN IF driverId = ""
          THEN ao' = Append(ao, inv)
          ELSE IF ~HasDriver(drivers.list, driverId)
               THEN ao' = Append(ao, Failed(inv))
               ELSE ao' = Append(ao,
                        [Issue(inv, "assign", Call("update", "orders", orderId))
                            EXCEPT !.selected = <<FindDriver(drivers.list, driverId)>>])
    /\ UNCHANGED <<cartItems, userId, isLoggedIn, orders, dbCart, dbOrders, dbItems,
                   dbProducts, co, fo, nCheckouts, now, cart0, opLog, drivers,
                   server, accounts, rendered, cartPage>>

\* assignDriverToOrder returns
AssignDriverReturns(i, ok) ==
    /\ ao[i].op = "assignDriver"
    /\ ao[i].pc = "assign"
    /\ LET selectedDriver == ao[i].selected[1]
       IN /\ dbOrders' = AssignDriverToOrder(dbOrders, ao[i].orderId,
                                             selectedDriver.profileId, ok)
          /\ IF AdminErr(ok)
             THEN /\ orders' = orders
                  /\ Advance(i, Failed(Returned(ao[i], ResultOf(ok))))
             ELSE /\ orders' = SetDriverLocal(ao[i].orders, ao[i].orderId,
                                              selectedDriver.name)
                  /\ Advance(i, Succeeded(Returned(ao[i], ResultOf(ok))))
    /\ UNCHANGED <<cartItems, userId, isLoggedIn, dbCart, dbItems,
                   dbProducts, co, fo, nCheckouts, now, cart0, opLog, drivers,
                   server, accounts, rendered, cartPage>>

\* handleDeleteOrder with deleteOrderId set by the Delete button of a row that
\* is not Pending; runs to the order_items delete
handleDeleteOrder(deleteOrderId) ==
    /\ Len(ao) < MaxOps
    /\ HasOrder(orders, deleteOrderId)
    /\ OrderOf(orders, deleteOrderId).status # "Pending"
    /\ ao' = Append(ao, Invocation("delete", deleteOrderId, "", orders, "deleteItems",
                        <<Call("delete", "order_items", deleteOrderId)>>, "none"))
    /\ UNCHANGED <<cartItems, userId, isLoggedIn, orders, dbCart, dbOrders, dbItems,
                   dbProducts, co, fo, nCheckouts, now, cart0, opLog, drivers,
                   server, accounts, rendered, cartPage>>

\* the order_items delete returns
DeleteItemsReturns(i, ok) ==
    /\ ao[i].op = "delete"
    /\ ao[i].pc = "deleteItems"
    /\ dbItems' = DeleteItemRows(dbItems, ao[i].orderId, ok)
    /\ LET inv == Returned(ao[i], ResultOf(ok))
       IN IF ItemsError(ok)
          THEN Advance(i, Failed(inv))
          ELSE Advance(i, Issue(inv, "deleteOrder",
                                Call("delete", "orders", ao[i].orderId)))
    /\ UNCHANGED <<cartItems, userId, isLoggedIn, orders, dbCart, dbOrders,
                   dbProducts, co, fo, nCheckouts, now, cart0, opLog, drivers,
                   server, accounts, rendered, cartPage>>

\* the orders delete returns (order_items rows go with their order:
\* order_id uuid REFERENCES orders(id) ON DELETE CASCADE)
DeleteOrderReturns(i, outcome) ==
    /\ ao[i].op = "delete"
    /\ ao[i].pc = "deleteOrder"
    /\ dbOrders' = DeleteOrderRows(dbOrders, ao[i].orderId, outcome)
    /\ dbItems' = DeleteItemRows(dbItems, ao[i].orderId, outcome = "deleted")
    /\ LET inv == Returned(ao[i], outcome)
       IN IF OrderError(outcome)
          THEN Advance(i, Failed(inv))
          ELSE Advance(i, Issue(inv, "verify",
                                Call("select", "orders", ao[i].orderId)))
    /\ UNCHANGED <<cartItems, userId, isLoggedIn, orders, dbCart,
                   dbProducts, co, fo, nCheckouts, now, cart0, opLog, drivers,
                   server, accounts, rendered, cartPage>>

\* the verification select returns
VerifyReturns(i, ok) ==
    /\ ao[i].op = "delete"
    /\ ao[i].pc = "verify"
    /\ LET v == VerifyOrder(dbOrders, ao[i].orderId, ok)
           inv == Returned(ao[i], IF v.verifyError THEN "error" ELSE "ok")
       IN IF StillExists(v)
          THEN /\ orders' = orders
               /\ Advance(i, Failed(inv))
          ELSE /\ orders' = RemoveOrderLocal(ao[i].orders, ao[i].orderId)
               /\ Advance(i, Succeeded(inv))
    /\ UNCHANGED <<cartItems, userId, isLoggedIn, dbCart, dbOrders, dbItems,
                   dbProducts, co, fo, nCheckouts, now, cart0, opLog, drivers,
                   server, accounts, rendered, cartPage>>

\* the orders of earlier sessions that the admin dashboard finds in the store
InitialOrderRows ==
    {InsertedRow(OrderPayload(OtherUser, 0, 159,
                              [present |-> TRUE, deliveryOption |-> "delivery"]),
                 DbId(1)),
     [InsertedRow(OrderPayload(OtherUser, 1, 150,
                               [present |-> TRUE, deliveryOption |-> "pickup"]),
                  DbId(2)) EXCEPT !.status = "Confirmed"]}

InitialItemRows ==
    ItemsPayload(DbId(1), <<CartLine("A", 100, 1)>>)
    \o ItemsPayload(DbId(2), <<CartLine("B", 150, 1)>>)

\* the admin has signed in (handleLogin(true, ..., id) with an empty cart) and
\* the store holds the orders of earlier sessions
InitAdmin ==
    /\ isLoggedIn = TRUE
    /\ userId = "u1"
    /\ cartItems = <<>>
    /\ dbCart = OtherRows
    /\ orders = <<>>
    /\ dbOrders = InitialOrderRows
    /\ dbItems = InitialItemRows
    /\ dbProducts = [p \in Products |-> InitialPrice(p)]
    /\ co = IdleCheckout
    /\ fo = IdleFetch
    /\ nCheckouts = 0
    /\ now = 1
    /\ cart0 = cartItems
    /\ opLog = <<>>
    /\ ao = <<>>
    /\ drivers = NoDrivers
    /\ server = [ADMIN_SECRET |-> "s3cret", reqs |-> <<>>]
    /\ accounts = NoAccounts
    /\ rendered = cartItems
    /\ cartPage = NoCartPage

\* ------------------------------------------ the create-driver server
\* process.env.ADMIN_SECRET and req.header('x-admin-secret'): a string, or
\* undefined when the variable or the header is not there
Undefined == "undefined"
Secrets == {Undefined, "s3cret"}
HeaderSecrets == {Undefined, "wrong", "s3cret"}

\* the Express route app.post('/create-driver') and the edge function handler
Kinds == {"express", "edge"}

\* mutant: only the comparison with the header is made
Unauthorized_HeaderOnly(secret, headerSecret) == headerSecret # secret

\* if (!ADMIN_SECRET || headerSecret !== ADMIN_SECRET)
Unauthorized(secret, headerSecret) == secret = Undefined \/ headerSecret # secret

\* if (!email || !password || !fullName || !username || !vehicleNumber)
MissingFields(fields) == ~fields

\* a request: what it came with, the id its auth user gets, the calls it
\* issued, where it stands, and the status of its response (0: none yet)
Request(kind, headerSecret, fields, uid) ==
    [kind |-> kind, header |-> headerSecret, fields |-> fields, userId |-> uid,
     pc |-> "start", issued |-> <<>>, returned |-> <<>>, status |-> 0]

Respond(rq, status) == [rq EXCEPT !.pc = "done", !.status = status]
Await(rq, pc, call) == [rq EXCEPT !.pc = pc, !.issued = Append(rq.issued, call)]
Got(rq, ok) == [rq EXCEPT !.returned = Append(rq.returned, ResultOf(ok))]
SetRequest(i, rq) == server' = [server EXCEPT !.reqs[i] = rq]

\* supabase.auth.admin.deleteUser(userId): profiles.id REFERENCES auth.users
\* ON DELETE CASCADE, drivers.profile_id REFERENCES profiles(id) ON DELETE CASCADE
DeleteUser(acc, uid, ok) ==
    IF ok
    THEN [users |-> acc.users \ {uid},
          profiles |-> {r \in acc.profiles : r.id # uid},
          drivers |-> {r \in acc.drivers : r.profile_id # uid}]
    ELSE acc

\* supabase.from('profiles').delete().eq('id', userId)
DeleteProfile(acc, uid, ok) ==
    IF ok
    THEN [acc EXCEPT !.profiles = {r \in acc.profiles : r.id # uid},
                     !.drivers = {r \in acc.drivers : r.profile_id # uid}]
    ELSE acc

\* a POST arrives: the Express route checks the shared secret, both handlers
\* check the required fields, then run to auth.admin.createUser
CreateDriverRequest(kind, headerSecret, fields) ==
    /\ Len(server.reqs) < MaxOps
    /\ LET rq == Request(kind, headerSecret, fields, Len(server.reqs) + 1)
       IN server' = [server EXCEPT !.reqs = Append(server.reqs,
             IF kind = "express" /\ Unauthorized(server.ADMIN_SECRET, headerSecret)
             THEN Respond(rq, 401)
             ELSE IF MissingFields(fields)
                  THEN Respond(rq, 400)
                  ELSE Await(rq, "createUser", Call("insert", "auth.users", rq.userId)))]
    /\ UNCHANGED <<cartItems, userId, isLoggedIn, orders, dbCart, dbOrders, dbItems,
                   dbProducts, co, fo, nCheckouts, now, cart0, opLog, ao, drivers,
                   accounts, rendered, cartPage>>

\* auth.admin.createUser returns
CreateUserReturns(i, ok) ==
    /\ server.reqs[i].pc = "createUser"
    /\ LET rq == Got(server.reqs[i], ok)
       IN IF ok
          THEN /\ accounts' = [accounts EXCEPT !.users = @ \cup {rq.userId}]
               /\ SetRequest(i, Await(rq, "insertProfile",
                                      Call("insert", "profiles", rq.userId)))
          ELSE /\ accounts' = accounts
               /\ SetRequest(i, Respond(rq, 400))
    /\ UNCHANGED <<cartItems, userId, isLoggedIn, orders, dbCart, dbOrders, dbItems,
                   dbProducts, co, fo, nCheckouts, now, cart0, opLog, ao, drivers,
                   rendered, cartPage>>

\* the profiles insert returns; on an error the auth user is deleted
ProfileInsertReturns(i, ok) ==
    /\ server.reqs[i].pc = "insertProfile"
    /\ LET rq == Got(server.reqs[i], ok)
       IN IF ok
          THEN /\ accounts' = [accounts EXCEPT !.profiles =
                                  @ \cup {[id |-> rq.userId, role |-> "driver"]}]
               /\ SetRequest(i, Await(rq, "insertDriver",
                                      Call("insert", "drivers", rq.userId)))
          ELSE /\ accounts' = accounts
               /\ SetRequest(i, Await(rq, "cleanupUser",
                                      Call("delete", "auth.users", rq.userId)))
    /\ UNCHANGED <<cartItems, userId, isLoggedIn, orders, dbCart, dbOrders, dbItems,
                   dbProducts, co, fo, nCheckouts, now, cart0, opLog, ao, drivers,
                   rendered, cartPage>>

\* the drivers insert returns; on an error the profile row, then the auth
\* user are deleted
DriverInsertReturns(i, ok) ==
    /\ server.reqs[i].pc = "insertDriver"
    /\ LET rq == Got(server.reqs[i], ok)
       IN IF ok
          THEN /\ accounts' = [accounts EXCEPT !.drivers =
                                  @ \cup {[profile_id |-> rq.userId]}]
               /\ SetRequest(i, Respond(rq, 201))
          ELSE /\ accounts' = accounts
               /\ SetRequest(i, Await(rq, "cleanupProfile",
                                      Call("delete", "profiles", rq.userId)))
    /\ UNCHANGED <<cartItems, userId, isLoggedIn, orders, dbCart, dbOrders, dbItems,
                   dbProducts, co, fo, nCheckouts, now, cart0, opLog, ao, drivers,
                   rendered, cartPage>>

\* the cleanup delete of the profile row returns; its result is not looked at
CleanupProfileReturns(i, ok) ==
    /\ server.reqs[i].pc = "cleanupProfile"
    /\ LET rq == Got(server.reqs[i], ok)
       IN /\ accounts' = DeleteProfile(accounts, rq.userId, ok)
          /\ SetRequest(i, Await(rq, "cleanupUser",
                                 Call("delete", "auth.users", rq.userId)))
    /\ UNCHANGED <<cartItems, userId, isLoggedIn, orders, dbCart, dbOrders, dbItems,
                   dbProducts, co, fo, nCheckouts, now, cart0, opLog, ao, drivers,
                   rendered, cartPage>>

\* the cleanup auth.admin.deleteUser returns; its result is not looked at, and
\* the response is the 400 of the failed insert
CleanupUserReturns(i, ok) ==
    /\ server.reqs[i].pc = "cleanupUser"
    /\ LET rq == Got(server.reqs[i], ok)
       IN /\ accounts' = DeleteUser(accounts, rq.userId, ok)
          /\ SetRequest(i, Respond(rq, 400))
    /\ UNCHANGED <<cartItems, userId, isLoggedIn, orders, dbCart, dbOrders, dbItems,
                   dbProducts, co, fo, nCheckouts, now, cart0, opLog, ao, drivers,
                   rendered, cartPage>>

\* the server starts with ADMIN_SECRET set or not set
InitDrivers ==
    /\ isLoggedIn = TRUE
    /\ userId = "u1"
    /\ cartItems = <<>>
    /\ dbCart = OtherRows
    /\ orders = <<>>
    /\ dbOrders = {}
    /\ dbItems = <<>>
    /\ dbProducts = [p \in Products |-> InitialPrice(p)]
    /\ co = IdleCheckout
    /\ fo = IdleFetch
    /\ nCheckouts = 0
    /\ now = 1
    /\ cart0 = cartItems
    /\ opLog = <<>>
    /\ ao = <<>>
    /\ drivers = NoDrivers
    /\ \E secret \in Secrets : server = [ADMIN_SECRET |-> secret, reqs |-> <<>>]
    /\ accounts = NoAccounts
    /\ rendered = cartItems
    /\ cartPage = NoCartPage

NextDrivers ==
    \/ \E kind \in Kinds, headerSecret \in HeaderSecrets, fields \in BOOLEAN :
          CreateDriverRequest(kind, headerSecret, fields)
    \/ \E i \in 1..Len(server.reqs), ok \in BOOLEAN : CreateUserReturns(i, ok)
    \/ \E i \in 1..Len(server.reqs), ok \in BOOLEAN : ProfileInsertReturns(i, ok)
    \/ \E i \in 1..Len(server.reqs), ok \in BOOLEAN : DriverInsertReturns(i, ok)
    \/ \E i \in 1..Len(server.reqs), ok \in BOOLEAN : CleanupProfileReturns(i, ok)
    \/ \E i \in 1..Len(server.reqs), ok \in BOOLEAN : CleanupUserReturns(i, ok)

SpecDrivers == InitDrivers /\ [][NextDrivers]_vars

\* ------------------------------------------------------------ specification
Next ==
    \/ \E sel \in SUBSET Products, info \in DeliveryInfos :
          nCheckouts < MaxCheckouts /\ handleCheckout(sel, info)
    \/ \E user \in Users \cup {NoUser} : GetUserReturns(user)
    \/ \E found \in BOOLEAN : ProfileReturns(found)
    \/ \E ok \in BOOLEAN : OrderInsertReturns(ok)
    \/ \E ok \in BOOLEAN : ItemsInsertReturns(ok)
    \/ \E ok \in BOOLEAN : RemoveFromCartReturns(ok)

Spec == Init /\ [][Next]_vars

\* checkout, then the admin dashboard: product price edits and the order reload
NextOrders ==
    \/ Next
    \/ \E p \in Products, price \in Prices : UpdateProductPrice(p, price)
    \/ FetchOrdersStart
    \/ \E ok \in BOOLEAN : FetchOrdersReturns(ok)
    \/ \E ok \in BOOLEAN : FetchProductsReturns(ok)

SpecOrders == Init /\ [][NextOrders]_vars

\* the component re-renders: the handlers of the new render close over the
\* current cartItems
Render ==
    /\ rendered # cartItems
    /\ rendered' = cartItems
    /\ UNCHANGED <<cartItems, userId, isLoggedIn, orders, dbCart, dbOrders, dbItems,
                   dbProducts, co, fo, nCheckouts, now, cart0, opLog, ao, drivers,
                   server, accounts, cartPage>>

\* a signed-in user's cart handlers, called from the last render, which may
\* be older than the cart; quantities of 1 and more
InitRender == Init /\ isLoggedIn
PositiveQuantities == {1, MaxQty}

NextRender ==
    \/ \E p \in DOMAIN dbProducts, q \in PositiveQuantities, ok \in BOOLEAN :
          AddToCartCalled(rendered, [id |-> p, price |-> dbProducts[p]], q, ok)
    \/ \E p \in Products, q \in PositiveQuantities, ok \in BOOLEAN :
          handleUpdateQuantity(p, q, ok)
    \/ \E p \in Products, ok \in BOOLEAN : handleRemoveFromCart(p, ok)
    \/ Render

SpecRender == InitRender /\ [][NextRender]_vars

\* one session of the application: checkouts, and in between the admin
\* dashboard with its reload and the Accept and Delete buttons of the order rows
OrderIds == {orders[k].id : k \in 1..Len(orders)}

\* the session starts signed in, with one line of each product in the cart;
\* a checkout takes one product of the cart, for pickup
InitSession ==
    /\ Init
    /\ isLoggedIn
    /\ cartItems = <<CartLine("A", InitialPrice("A"), 1), CartLine("B", InitialPrice("B"), 1)>>

SessionSelections == {{p} : p \in Products}
SessionDeliveryInfo == [present |-> TRUE, deliveryOption |-> "pickup"]

NextSession ==
    \/ \E sel \in SessionSelections :
          nCheckouts < MaxSessionCheckouts /\ handleCheckout(sel, SessionDeliveryInfo)
    \/ \E user \in Users \cup {NoUser} : GetUserReturns(user)
    \/ \E found \in BOOLEAN : ProfileReturns(found)
    \/ \E ok \in BOOLEAN : OrderInsertReturns(ok)
    \/ \E ok \in BOOLEAN : ItemsInsertReturns(ok)
    \/ \E ok \in BOOLEAN : RemoveFromCartReturns(ok)
    \/ FetchOrdersStart
    \/ \E ok \in BOOLEAN : FetchOrdersReturns(ok)
    \/ \E ok \in BOOLEAN : FetchProductsReturns(ok)
    \/ \E id \in OrderIds : handleAcceptOrder(id)
    \/ \E id \in OrderIds : handleDeleteOrder(id)
    \/ \E i \in 1..Len(ao), ok \in BOOLEAN : AcceptOrderReturns(i, ok)
    \/ \E i \in 1..Len(ao), ok \in BOOLEAN : DeleteItemsReturns(i, ok)
    \/ \E i \in 1..Len(ao), outcome \in DeleteOutcomes : DeleteOrderReturns(i, outcome)
    \/ \E i \in 1..Len(ao), ok \in BOOLEAN : VerifyReturns(i, ok)

SpecSession == InitSession /\ [][NextSession]_vars

\* a signed-in user's checkouts (for pickup), and the user signing out and in
\* again
InitRelogin == Init /\ isLoggedIn

NextRelogin ==
    \/ \E sel \in SUBSET Products :
          nCheckouts < MaxCheckouts /\ handleCheckout(sel, SessionDeliveryInfo)
    \/ \E user \in Users \cup {NoUser} : GetUserReturns(user)
    \/ \E found \in BOOLEAN : ProfileReturns(found)
    \/ \E ok \in BOOLEAN : OrderInsertReturns(ok)
    \/ \E ok \in BOOLEAN : ItemsInsertReturns(ok)
    \/ \E ok \in BOOLEAN : RemoveFromCartReturns(ok)
    \/ isLoggedIn /\ handleLogout
    \/ \E id \in Users, cartOk \in BOOLEAN, productsOk \in BOOLEAN :
          ~isLoggedIn /\ handleLogin(id, cartOk, productsOk)

SpecRelogin == InitRelogin /\ [][NextRelogin]_vars

\* ------------------------------------------------------------ CartPage
IdsOf(items) == {items[k].product.id : k \in 1..Len(items)}

\* handleCartClick shows the cart page: CartPage mounts with
\* useState(new Set(cartItems.map(item => item.product.id)))
MountCartPage ==
    /\ isLoggedIn
    /\ ~cartPage.mounted
    /\ cartPage' = [mounted |-> TRUE, selectedItems |-> IdsOf(cartItems),
                    cartItems |-> cartItems]
    /\ UNCHANGED <<cartItems, userId, isLoggedIn, orders, dbCart, dbOrders, dbItems,
                   dbProducts, co, fo, nCheckouts, now, cart0, opLog, ao, drivers,
                   server, accounts, rendered>>

\* the updater of the effect: every id of the cart that prev lacks is added,
\* every id of prev that the cart lacks is deleted
SelectedItemsUpdater(prev, items) ==
    (prev \cup {id \in IdsOf(items) : id \notin prev})
        \ {id \in prev : id \notin IdsOf(items)}

\* useEffect(..., [cartItems]): runs after a render in which cartItems changed
SelectedItemsEffect ==
    /\ cartPage.mounted
    /\ cartPage.cartItems # cartItems
    /\ cartPage' = [cartPage EXCEPT
                       !.selectedItems = SelectedItemsUpdater(@, cartItems),
                       !.cartItems = cartItems]
    /\ UNCHANGED <<cartItems, userId, isLoggedIn, orders, dbCart, dbOrders, dbItems,
                   dbProducts, co, fo, nCheckouts, now, cart0, opLog, ao, drivers,
                   server, accounts, rendered>>

\* the page takes the next event once its effect has run
CartPageReady == cartPage.mounted /\ cartPage.cartItems = cartItems

\* handleToggleItem(productId): the checkbox of a line
handleToggleItem(productId) ==
    /\ CartPageReady
    /\ productId \in IdsOf(cartItems)
    /\ cartPage' = [cartPage EXCEPT !.selectedItems =
                       IF productId \in @ THEN @ \ {productId} ELSE @ \cup {productId}]
    /\ UNCHANGED <<cartItems, userId, isLoggedIn, orders, dbCart, dbOrders, dbItems,
                   dbProducts, co, fo, nCheckouts, now, cart0, opLog, ao, drivers,
                   server, accounts, rendered>>

\* handleSelectAll: shown when the cart has lines
handleSelectAll ==
    /\ CartPageReady
    /\ Len(cartItems) > 0
    /\ cartPage' = [cartPage EXCEPT !.selectedItems =
                       IF Cardinality(@) = Len(cartItems) THEN {} ELSE IdsOf(cartItems)]
    /\ UNCHANGED <<cartItems, userId, isLoggedIn, orders, dbCart, dbOrders, dbItems,
                   dbProducts, co, fo, nCheckouts, now, cart0, opLog, ao, drivers,
                   server, accounts, rendered>>

\* the quantity buttons of a line: Math.max(1, item.quantity - 1), item.quantity + 1
QuantityButtons(item) ==
    {IF item.quantity - 1 > 1 THEN item.quantity - 1 ELSE 1, item.quantity + 1}

\* the cart page of a signed-in user: its checkboxes, its quantity buttons and
\* its remove buttons
NextCartPage ==
    \/ MountCartPage
    \/ SelectedItemsEffect
    \/ \E p \in Products : handleToggleItem(p)
    \/ handleSelectAll
    \/ \E k \in 1..Len(cartItems), ok \in BOOLEAN :
          \E q \in QuantityButtons(cartItems[k]) :
             CartPageReady /\ handleUpdateQuantity(cartItems[k].product.id, q, ok)
    \/ \E k \in 1..Len(cartItems), ok \in BOOLEAN :
          CartPageReady /\ handleRemoveFromCart(cartItems[k].product.id, ok)

SpecCartPage == Init /\ [][NextCartPage]_vars

\* the cart handlers alone
\* quantity arguments: below 1, 1, and the largest quantity of a line
Quantities == {-1, 0, 1, MaxQty}

NextCart ==
    \/ \E p \in DOMAIN dbProducts, q \in Quantities, ok \in BOOLEAN :
          handleAddToCart([id |-> p, price |-> dbProducts[p]], q, ok)
    \/ \E p \in Products, q \in Quantities, ok \in BOOLEAN :
          handleUpdateQuantity(p, q, ok)
    \/ \E p \in Products, ok \in BOOLEAN : handleRemoveFromCart(p, ok)
    \/ \E id \in Users \cup {NoUser}, cartOk \in BOOLEAN, productsOk \in BOOLEAN :
          handleLogin(id, cartOk, productsOk)
    \/ handleLogout
    \/ \E p \in Products : DeleteProduct(p)

SpecCart == Init /\ [][NextCart]_vars

\* the admin dashboard: it mounts once, then the admin works on the order rows
NextAdmin ==
    \/ FetchOrdersStart /\ drivers = NoDrivers
    \/ \E ok \in BOOLEAN : FetchOrdersReturns(ok)
    \/ \E ok \in BOOLEAN : FetchProductsReturns(ok)
    \/ \E ok \in BOOLEAN : LoadDriversReturns(ok)
    \/ \E id \in {DbId(1), DbId(2)}, s \in Statuses : handleUpdateStatus(id, s)
    \/ \E id \in {DbId(1), DbId(2)} : handleAcceptOrder(id)
    \/ \E id \in {DbId(1), DbId(2)}, d \in DriverIdArgs : handleAssignDriver(id, d)
    \/ \E id \in {DbId(1), DbId(2)} : handleDeleteOrder(id)
    \/ \E i \in 1..Len(ao), ok \in BOOLEAN : UpdateStatusReturns(i, ok)
    \/ \E i \in 1..Len(ao), ok \in BOOLEAN : AcceptOrderReturns(i, ok)
    \/ \E i \in 1..Len(ao), ok \in BOOLEAN : AssignDriverReturns(i, ok)
    \/ \E i \in 1..Len(ao), ok \in BOOLEAN : DeleteItemsReturns(i, ok)
    \/ \E i \in 1..Len(ao), outcome \in DeleteOutcomes : DeleteOrderReturns(i, outcome)
    \/ \E i \in 1..Len(ao), ok \in BOOLEAN : VerifyReturns(i, ok)

SpecAdmin == InitAdmin /\ [][NextAdmin]_vars

\* ------------------------------------------------------------ properties
\* what the claims speak of, written without the handlers' definitions
LinesIn(cart, S) == {i \in 1..Len(cart) : cart[i].product.id \in S}

RECURSIVE SumOver(_, _)
SumOver(cart, I) ==
    IF I = {} THEN 0
    ELSE LET i == CHOOSE k \in I : TRUE
         IN cart[i].product.price * cart[i].quantity + SumOver(cart, I \ {i})

SumOfLines(cart, S) == SumOver(cart, LinesIn(cart, S))

ExpectedTotal(cart, S, d) == SumOfLines(cart, S) + (IF d = "delivery" THEN 59 ELSE 0)

LinesOfSelection(cart, S) == SelectSeq(cart, LAMBDA l : l.product.id \in S)
LinesOutside(cart, S) == SelectSeq(cart, LAMBDA l : l.product.id \notin S)

Issued(call) == \E i \in 1..Len(co.issued) : co.issued[i] = call
IssuedAt(call) == {i \in 1..Len(co.issued) : co.issued[i] = call}
InsertOrders == [op |-> "insert", table |-> "orders", key |-> ""]
InsertItems == [op |-> "insert", table |-> "order_items", key |-> ""]
DeleteCart(p) == [op |-> "delete", table |-> "carts", key |-> p]

\* C1: the total checkout computes is the sum of price*quantity over the cart
\* lines whose product id is selected, plus 59 for "delivery" and 0 otherwise
\* (price 100, quantity 2: pickup 200, delivery 259), and the cart page shows
\* the same number for the same selection and option.
C1_CheckoutTotal ==
    co.pc # "idle" =>
        /\ co.total = ExpectedTotal(co.cart, co.sel, OptionOf(co.info))
        /\ \A d \in {"delivery", "pickup"} :
              OptionOf(co.info) = d => CartPageTotal(co.cart, co.sel, d) = co.total
        /\ (co.cart = <<CartLine("A", 100, 2)>> /\ co.sel = {"A"}) =>
              /\ OptionOf(co.info) = "pickup" => co.total = 200
              /\ OptionOf(co.info) = "delivery" => co.total = 259

C1_Witness ==
    /\ co.pc # "idle"
    /\ co.cart = <<CartLine("A", 100, 2)>>
    /\ co.sel = {"A"}
    /\ OptionOf(co.info) = "delivery"
    /\ co.total = 259

\* C2: every order checkout appends has totalAmount = sum of its items'
\* price*quantity plus 59 when its recorded deliveryOption is "delivery", else 0.
C2_OrderTotalInvariant ==
    \A i \in 1..Len(orders) :
        orders[i].totalAmount =
            SumOfLines(orders[i].items, Products)
            + (IF orders[i].deliveryOption = "delivery" THEN 59 ELSE 0)

\* C3: when both inserts succeed, the step that completes them removes every
\* selected line from the local cart, leaves the other lines as they were and
\* appends exactly one order whose items are the selected lines of the cart at
\* invocation; by the end a remote cart delete was issued for each selected id.
C3_CommitStep ==
    (co.pc = "itemsInsert" /\ co'.itemsResult = "ok") =>
        /\ \A i \in 1..Len(cartItems') : cartItems'[i].product.id \notin co.sel
        /\ cartItems' = LinesOutside(cartItems, co.sel)
        /\ Len(orders') = Len(orders) + 1
        /\ SubSeq(orders', 1, Len(orders)) = orders
        /\ Last(orders').items = LinesOfSelection(co.cart, co.sel)

C3_DeletesIssued ==
    (co.pc = "done" /\ co.outcome = "success" /\ co.itemsResult = "ok") =>
        \A p \in co.sel : Issued(DeleteCart(p))

C3_SuccessfulCheckout == [][C3_CommitStep]_vars /\ []C3_DeletesIssued

C3_Witness ==
    /\ co.pc = "done"
    /\ co.outcome = "success"
    /\ co.itemsResult = "ok"
    /\ Len(co.cart) = 2
    /\ Len(cartItems) = 1
    /\ Len(orders) = 1

\* C4: when the orders insert fails, the step appends exactly one fallback
\* order (Pending, "Unassigned", the selected lines, the total the persisted
\* path would record), issues no order_items insert and removes the selected
\* lines from the local cart.
C4_FallbackStep ==
    (co.pc = "orderInsert" /\ co'.pc = "done" /\ co'.inserted = <<>>) =>
        LET fb == Last(orders')
            persisted == NewOrder(
                InsertedRow(OrderPayload(co.user, co.ordersLength, co.total, co.info),
                            DbId(Cardinality(dbOrders) + 1)),
                co.items, co.total)
        IN /\ Len(orders') = Len(orders) + 1
           /\ SubSeq(orders', 1, Len(orders)) = orders
           /\ fb.status = "Pending"
           /\ fb.driver = "Unassigned"
           /\ fb.items = LinesOfSelection(co.cart, co.sel)
           /\ fb.items = persisted.items
           /\ fb.totalAmount = ExpectedTotal(co.cart, co.sel, OptionOf(co.info))
           /\ fb.totalAmount = persisted.totalAmount
           /\ \A i \in 1..Len(co'.issued) : co'.issued[i] # InsertItems
           /\ dbItems' = dbItems
           /\ cartItems' = LinesOutside(cartItems, co.sel)

C4_OrderInsertFails == [][C4_FallbackStep]_vars

C4_Witness ==
    /\ co.pc = "done"
    /\ co.outcome = "orderInsertFailed"
    /\ OptionOf(co.info) = "delivery"
    /\ Len(co.items) = 1
    /\ Len(co.cart) = 2
    /\ Len(orders) = 1

\* C5: a checkout that found no session, or a session without a profile row,
\* issues no orders insert, no order_items insert and no remote cart delete.
NoAuth ==
    \/ co.pc \notin {"idle", "getUser"} /\ co.user = NoUser
    \/ co.profile = "missing"

C5_NoRemoteWrites ==
    NoAuth =>
        \A i \in 1..Len(co.issued) :
            /\ co.issued[i] # InsertOrders
            /\ co.issued[i] # InsertItems
            /\ co.issued[i].table # "carts"

C5_Witness ==
    /\ co.pc = "done"
    /\ co.profile = "missing"
    /\ co.items # <<>>

\* C6: a checkout that found no session, or no profile row, aborts without an
\* order: the order list and the local cart are the same after it as before.
C6_AbortStep ==
    (co.pc \in {"getUser", "profile"} /\ co'.pc = "done") =>
        /\ orders' = orders
        /\ cartItems' = cartItems

C6_AbortLeavesState == [][C6_AbortStep]_vars

\* C7 (as stated): the order_items insert is issued only after the orders
\* insert returned a row, and on the success path the cart lines are removed,
\* locally and remotely, only after the order_items insert returned successfully.
ItemsInsertAfterOrder ==
    \A i \in IssuedAt(InsertItems) :
        /\ co.inserted # <<>>
        /\ \E j \in IssuedAt(InsertOrders) : j < i

RemovalStarted ==
    /\ co.outcome = "success"
    /\ \/ cartItems # co.cart
       \/ \E p \in Products : Issued(DeleteCart(p))

C7_RemovalAfterItemsInsert ==
    /\ ItemsInsertAfterOrder
    /\ RemovalStarted => co.itemsResult = "ok"

\* C7 (amended): as stated, except that a checkout whose selection matches no
\* cart line issues no order_items insert, and then removes (remotely) right
\* after the orders insert returned a row.
C7_CheckoutOrdering ==
    /\ ItemsInsertAfterOrder
    /\ RemovalStarted =>
          \/ /\ co.itemsResult = "ok"
             /\ \A p \in Products : \A d \in IssuedAt(DeleteCart(p)) :
                    \E i \in IssuedAt(InsertItems) : i < d
          \/ /\ co.items = <<>>
             /\ cartItems = co.cart
             /\ IssuedAt(InsertItems) = {}
             /\ co.inserted # <<>>
             /\ \A p \in Products : \A d \in IssuedAt(DeleteCart(p)) :
                    \E j \in IssuedAt(InsertOrders) : j < d

C7_Witness ==
    /\ co.pc = "done"
    /\ co.outcome = "success"
    /\ co.itemsResult = "ok"
    /\ cartItems # co.cart
    /\ \A p \in co.sel : Issued(DeleteCart(p))
    /\ Cardinality(co.sel) = 2

\* C8: when the orders insert succeeded and the order_items insert failed, the
\* inserted row stays in the orders table without items, and checkout issues
\* no delete or update on the orders table.
C8_NoRollback ==
    co.itemsResult = "failed" =>
        /\ co.inserted[1] \in dbOrders
        /\ \A k \in 1..Len(dbItems) : dbItems[k].order_id # co.inserted[1].id
        /\ \A i \in 1..Len(co.issued) :
              co.issued[i].table = "orders" => co.issued[i].op = "insert"

C8_Witness ==
    /\ co.pc = "done"
    /\ co.itemsResult = "failed"
    /\ co.outcome = "itemsInsertFailed"
    /\ Len(orders) = 1

\* C9: the unit price of every item of an order is the price recorded at
\* checkout, in the order_items rows and in the items of the in-memory order
\* list, also after the product's price changed and the admin list reloaded.
C9_PriceFrozen ==
    \A i \in 1..Len(orders) : \A j \in 1..Len(orders[i].items) :
        \A k \in 1..Len(dbItems) :
            (/\ dbItems[k].order_id = orders[i].id
             /\ dbItems[k].product_id = orders[i].items[j].product.id)
            => orders[i].items[j].product.price = dbItems[k].price

\* C10: add(product, q1) then add(product, q2) on a cart without a line for the
\* product leaves exactly one line for it, of quantity q1+q2, and the other
\* lines as they were.
AddedTwice ==
    /\ Len(opLog) = 2
    /\ opLog[1].op = "add"
    /\ opLog[2].op = "add"
    /\ opLog[1].id = opLog[2].id
    /\ LinesIn(cart0, {opLog[1].id}) = {}

C10_AddTwice ==
    AddedTwice =>
        LET p == opLog[1].id
            I == LinesIn(cartItems, {p})
        IN /\ Cardinality(I) = 1
           /\ \A i \in I : cartItems[i].quantity = opLog[1].quantity + opLog[2].quantity
           /\ LinesOutside(cartItems, {p}) = cart0

C10_Witness ==
    /\ AddedTwice
    /\ cart0 # <<>>
    /\ opLog[1].quantity = 1
    /\ opLog[2].quantity = 2
    /\ Last(cartItems).quantity = 3

\* the cart handler calls of opLog
CartOps == {"add", "update", "remove"}
Step(op) == Len(opLog') = Len(opLog) + 1 /\ Last(opLog').op = op
Did(op) == opLog # <<>> /\ Last(opLog).op = op

C12_QuantityAtLeastOne ==
    \A i \in 1..Len(cartItems) : cartItems[i].quantity >= 1

\* the local cart after add, updateQuantity and remove, as the claims state it
AddedLocally(before, after, p, q) ==
    IF LinesIn(before, {p}) = {}
    THEN /\ Len(after) = Len(before) + 1
         /\ SubSeq(after, 1, Len(before)) = before
         /\ Last(after).product.id = p
         /\ Last(after).quantity = q
    ELSE /\ Len(after) = Len(before)
         /\ \A i \in 1..Len(before) :
               /\ after[i].product = before[i].product
               /\ after[i].quantity =
                     IF before[i].product.id = p
                     THEN before[i].quantity + q ELSE before[i].quantity

QuantitySetLocally(before, after, p, q) ==
    /\ Len(after) = Len(before)
    /\ \A i \in 1..Len(before) :
          /\ after[i].product = before[i].product
          /\ after[i].quantity = IF before[i].product.id = p THEN q
                                 ELSE before[i].quantity

RemovedLocally(before, after, p) == after = LinesOutside(before, {p})

FailedCall(e) == \E i \in 1..Len(e.calls) : ~e.calls[i].ok

\* C13: updateQuantity(productId, newQuantity) with newQuantity < 1 leaves the
\* local cart as it was and makes no call to the remote cart store, for every
\* cart and whether or not a user is logged in.
C13_NoOpStep ==
    (Step("update") /\ Last(opLog').quantity < 1) =>
        /\ cartItems' = cartItems
        /\ Last(opLog').calls = <<>>
        /\ dbCart' = dbCart

C13_UpdateBelowOneIsNoOp == [][C13_NoOpStep]_vars

C13_Witness ==
    /\ Did("update")
    /\ Last(opLog).quantity = 0
    /\ HasUserId(userId)
    /\ LinesIn(cartItems, {Last(opLog).id}) # {}
    /\ \E r \in dbCart : r.user_id = userId /\ r.product_id = Last(opLog).id

\* C14: remove(productId) for a product id without a line in the cart, once or
\* twice in a row, logged in or not, the remote delete failing or not, raises
\* no error and leaves the local cart unchanged.
C14_RemoveAbsentStep ==
    (Step("remove") /\ LinesIn(cartItems, {Last(opLog').id}) = {}) =>
        /\ cartItems' = cartItems
        /\ ~Last(opLog').raised

RemovedAbsentTwice ==
    /\ Len(opLog) = 2
    /\ opLog[1].op = "remove"
    /\ opLog[2].op = "remove"
    /\ opLog[1].id = opLog[2].id
    /\ LinesIn(cart0, {opLog[1].id}) = {}

C14_Twice ==
    RemovedAbsentTwice =>
        /\ cartItems = cart0
        /\ ~opLog[1].raised
        /\ ~opLog[2].raised

C14_RemoveAbsent == [][C14_RemoveAbsentStep]_vars /\ []C14_Twice

C14_Witness ==
    /\ RemovedAbsentTwice
    /\ HasUserId(userId)
    /\ cartItems # <<>>
    /\ opLog[1].calls # <<>>
    /\ FailedCall(opLog[2])

\* the carts rows a load of user uid is about, and the lines they stand for
RowsOf(uid) == {r \in dbCart : r.user_id = uid}
RowsInCatalog(uid) == {r \in RowsOf(uid) : r.product_id \in DOMAIN dbProducts}

OneLinePerRow(cart, rows) ==
    /\ Len(cart) = Cardinality(rows)
    /\ \A r \in rows : \E i \in 1..Len(cart) :
          /\ cart[i].product.id = r.product_id
          /\ cart[i].quantity = r.quantity

LoadStep == Step("login") /\ Last(opLog').id # NoUser
CartFetchFailed(e) == \E i \in 1..Len(e.calls) :
                          e.calls[i].table = "carts" /\ ~e.calls[i].ok
ProductsFetchFailed(e) == \E i \in 1..Len(e.calls) :
                              e.calls[i].table = "products" /\ ~e.calls[i].ok

\* C15 (as stated): the load at login sets the local cart to one line per
\* carts row of that user whose product is in the catalog, with the row's
\* quantity; rows of missing products are dropped; when the carts fetch fails
\* the local cart is empty; login completes either way.
C15_LoadStepAsStated ==
    LoadStep =>
        LET e == Last(opLog')
        IN /\ isLoggedIn'
           /\ userId' = e.id
           /\ IF CartFetchFailed(e)
              THEN cartItems' = <<>>
              ELSE OneLinePerRow(cartItems', RowsInCatalog(e.id))

C15_LoadAtLogin == [][C15_LoadStepAsStated]_vars

\* C15 (amended): as stated, and when the products fetch of the load fails
\* the local cart is empty as well.
C15_LoadStepAmended ==
    LoadStep =>
        LET e == Last(opLog')
        IN /\ isLoggedIn'
           /\ userId' = e.id
           /\ IF CartFetchFailed(e) \/ ProductsFetchFailed(e)
              THEN cartItems' = <<>>
              ELSE OneLinePerRow(cartItems', RowsInCatalog(e.id))

C15_LoadAtLoginOrEmpty == [][C15_LoadStepAmended]_vars

C15_Witness ==
    /\ Did("login")
    /\ Last(opLog).id = userId
    /\ HasUserId(userId)
    /\ ~CartFetchFailed(Last(opLog))
    /\ ~ProductsFetchFailed(Last(opLog))
    /\ Cardinality(RowsOf(userId)) = 2
    /\ Len(cartItems) = 1
    /\ Cardinality(DOMAIN dbProducts) = 1

LocalResult(e) ==
    /\ e.op = "add" => AddedLocally(cartItems, cartItems', e.id, e.quantity)
    /\ e.op = "update" => QuantitySetLocally(cartItems, cartItems', e.id, e.quantity)
    /\ e.op = "remove" => RemovedLocally(cartItems, cartItems', e.id)

\* C16: when the remote cart call of add, updateQuantity or remove fails, the
\* handler raises no error and the local cart holds the result of the
\* operation, as it does when the call succeeds.
C16_FailedCallStep ==
    (\E op \in CartOps : Step(op) /\ FailedCall(Last(opLog'))) =>
        /\ ~Last(opLog').raised
        /\ LocalResult(Last(opLog'))

C16_FailureSwallowed == [][C16_FailedCallStep]_vars

C16_Witness ==
    /\ Len(opLog) = 2
    /\ opLog[1].op = "add"
    /\ FailedCall(opLog[1])
    /\ opLog[2].op = "update"
    /\ FailedCall(opLog[2])
    /\ opLog[1].id = opLog[2].id
    /\ opLog[2].quantity = 2
    /\ opLog[1].quantity = 1
    /\ \E i \in 1..Len(cartItems) : /\ cartItems[i].product.id = opLog[2].id
                                    /\ cartItems[i].quantity = 2
    /\ \A r \in RowsOf(userId) : r.product_id # opLog[2].id

\* C17: while no user id is set, add, updateQuantity and remove make no call
\* to the remote cart store and change nothing but the local cart.
C17_GuestStep ==
    (\E op \in CartOps : Step(op) /\ ~HasUserId(userId)) =>
        /\ Last(opLog').calls = <<>>
        /\ IF Last(opLog').op = "update" /\ Last(opLog').quantity < 1
           THEN cartItems' = cartItems
           ELSE LocalResult(Last(opLog'))
        /\ UNCHANGED <<userId, isLoggedIn, orders, dbCart, dbOrders, dbItems, dbProducts>>

C17_GuestLocalOnly == [][C17_GuestStep]_vars

C17_Witness ==
    /\ ~HasUserId(userId)
    /\ Len(opLog) = 2
    /\ opLog[1].op = "add"
    /\ opLog[2].op = "remove"
    /\ opLog[1].id # opLog[2].id
    /\ Len(cart0) = 0
    /\ Len(cartItems) = 1
    /\ RowsOf("u1") # {}

\* the admin handler invocations, as the claims speak of them
Mutations == {"update", "delete"}
DeleteItemsCall(id) == [op |-> "delete", table |-> "order_items", key |-> id]
DeleteOrderCall(id) == [op |-> "delete", table |-> "orders", key |-> id]
RowExists(id) == \E r \in dbOrders : r.id = id

\* invocation i received the result of its next call in this step
GotResult(i) == Len(ao'[i].returned) = Len(ao[i].returned) + 1
MutationFailed(i) ==
    /\ GotResult(i)
    /\ ao[i].issued[Len(ao'[i].returned)].op \in Mutations
    /\ Last(ao'[i].returned) = "error"

\* C18: setStatus, accept, assignDriver and delete change the in-memory order
\* list only after their remote mutation returned without error; when the
\* remote update or delete returns an error, the list is the same after as
\* before.
C18_Step ==
    \A i \in 1..Len(ao) :
        /\ MutationFailed(i) =>
              /\ orders' = orders
              /\ ao'[i].pc = "done"
              /\ ao'[i].outcome = "error"
        /\ (GotResult(i) /\ orders' # orders) =>
              \A k \in 1..Len(ao'[i].returned) :
                  ao[i].issued[k].op \in Mutations => ao'[i].returned[k] # "error"

C18_LocalAfterRemote == [][C18_Step]_vars

C18_Witness ==
    /\ Len(ao) = 2
    /\ ao[1].op = "assignDriver"
    /\ ao[1].returned = <<"error">>
    /\ ao[2].op = "delete"
    /\ ao[2].returned = <<"ok", "error">>
    /\ ao[1].orderId = ao[2].orderId
    /\ HasOrder(orders, ao[2].orderId)
    /\ OrderOf(orders, ao[2].orderId).driver = "Unassigned"

\* C19: delete(orderId) issues the delete of the order's order_items before
\* the delete of the order row, and issues no delete of the order row when
\* the order_items delete returned an error.
C19_ItemsBeforeOrder ==
    \A i \in 1..Len(ao) : \A k \in 1..Len(ao[i].issued) :
        ao[i].issued[k] = DeleteOrderCall(ao[i].orderId) =>
            \E j \in 1..(k - 1) :
                /\ ao[i].issued[j] = DeleteItemsCall(ao[i].orderId)
                /\ ao[i].returned[j] = "ok"

C19_Witness ==
    /\ Len(ao) = 2
    /\ ao[1].op = "delete"
    /\ ao[1].pc = "done"
    /\ ao[1].returned = <<"error">>
    /\ ao[1].issued = <<DeleteItemsCall(ao[1].orderId)>>
    /\ ao[2].op = "delete"
    /\ Len(ao[2].issued) >= 2
    /\ ao[2].issued[2] = DeleteOrderCall(ao[2].orderId)
    /\ ~RowExists(ao[2].orderId)

\* C20: delete(orderId) removes the order from the in-memory list only if the
\* order row is gone from the store; when the delete call returned no error
\* and the row is still there, the operation ends as an error and the list
\* keeps the order.
C20_VerifiedDelete ==
    \A i \in 1..Len(ao) :
        (ao[i].op = "delete" /\ ao[i].pc = "done") =>
            /\ ao[i].outcome = "success" => ~RowExists(ao[i].orderId)
            /\ (Len(ao[i].returned) >= 2 /\ ao[i].returned[2] # "error"
                /\ RowExists(ao[i].orderId)) =>
                  /\ ao[i].outcome = "error"
                  /\ HasOrder(orders, ao[i].orderId)

\* invocation i of handler op ends well in this step
Completes(i, op) ==
    /\ ao[i].op = op
    /\ ao[i].pc # "done"
    /\ ao'[i].pc = "done"
    /\ ao'[i].outcome = "success"

\* the list after differs from the list before at most in one field of the
\* order orderId
OnlyFieldChanged(before, after, orderId, field) ==
    /\ Len(after) = Len(before)
    /\ \A k \in 1..Len(before) :
          IF before[k].id = orderId
          THEN after[k] = [before[k] EXCEPT ![field] = after[k][field]]
          ELSE after[k] = before[k]

\* this step is a call of handleAssignDriver
AssignCalled ==
    /\ Len(ao') = Len(ao) + 1
    /\ ao'[Len(ao')].op = "assignDriver"

\* C21: assignDriver(orderId, driverId) with a driverId outside the loaded
\* driver set issues no remote call and leaves the order list as it was (the
\* empty driverId ends silently, an unknown one ends as an error); with a
\* driverId of the set and a remote update that succeeded, the order's driver
\* becomes the display name of that driver and no other order changes.
C21_Step ==
    /\ AssignCalled =>
          LET inv == ao'[Len(ao')]
          IN /\ orders' = orders
             /\ dbOrders' = dbOrders
             /\ ~HasDriver(drivers.list, inv.arg) =>
                   /\ inv.issued = <<>>
                   /\ inv.pc = "done"
                   /\ inv.outcome = IF inv.arg = "" THEN "none" ELSE "error"
             /\ HasDriver(drivers.list, inv.arg) =>
                   /\ inv.issued = <<Call("update", "orders", inv.orderId)>>
                   /\ inv.pc # "done"
    /\ \A i \in 1..Len(ao) :
          Completes(i, "assignDriver") =>
              /\ \E d \in drivers.list :
                    /\ d.id = ao[i].arg
                    /\ OrderOf(orders', ao[i].orderId).driver = d.name
              /\ OnlyFieldChanged(ao[i].orders, orders', ao[i].orderId, "driver")
              /\ ao[i].orders = orders =>
                    OnlyFieldChanged(orders, orders', ao[i].orderId, "driver")

C21_AssignDriver == [][C21_Step]_vars

C21_Witness ==
    /\ Len(ao) = 2
    /\ ao[1].op = "assignDriver"
    /\ ao[1].arg = "d0"
    /\ ao[1].issued = <<>>
    /\ ao[1].outcome = "error"
    /\ ao[2].op = "assignDriver"
    /\ ao[2].arg = "d1"
    /\ ao[2].outcome = "success"
    /\ OrderOf(orders, ao[2].orderId).driver = "Dan"
    /\ \E k \in 1..Len(orders) : orders[k].driver = "Unassigned"

\* the invocations other than i that ended well are accepts of the same order
OnlyAcceptsBefore(i) ==
    \A j \in 1..Len(ao) :
        (j # i /\ ao[j].pc = "done" /\ ao[j].outcome = "success") =>
            /\ ao[j].op = "accept"
            /\ ao[j].orderId = ao[i].orderId

\* the order was accepted before: Confirmed in the list or in the store
AlreadyConfirmed(orderId) ==
    \/ OrderOf(orders, orderId).status = "Confirmed"
    \/ \E r \in dbOrders : r.id = orderId /\ r.status = "Confirmed"

\* C22: accept(orderId) on an order that is already Confirmed leaves it
\* Confirmed, locally and in the store, and a second accept gives the order
\* list the first one gave.
C22_Step ==
    \A i \in 1..Len(ao) :
        (Completes(i, "accept") /\ AlreadyConfirmed(ao[i].orderId)) =>
            /\ OrderOf(orders', ao[i].orderId).status = "Confirmed"
            /\ \A r \in dbOrders' : r.id = ao[i].orderId => r.status = "Confirmed"
            /\ OnlyAcceptsBefore(i) => orders' = orders

C22_AcceptIdempotent == [][C22_Step]_vars

C22_Witness ==
    /\ Len(ao) = 2
    /\ \A i \in 1..2 :
          /\ ao[i].op = "accept"
          /\ ao[i].pc = "done"
          /\ ao[i].outcome = "success"
    /\ ao[1].orderId = ao[2].orderId
    /\ OrderOf(orders, ao[1].orderId).status = "Confirmed"

\* C23: a setStatus(orderId, newStatus) that succeeded leaves the order in
\* newStatus whatever its status was, backward changes such as Delivered to
\* Pending included, and changes no other order and no other field.
C23_Step ==
    \A i \in 1..Len(ao) :
        Completes(i, "setStatus") =>
            /\ ao[i].arg \in Statuses
            /\ OrderOf(orders', ao[i].orderId).status = ao[i].arg
            /\ \A r \in dbOrders' : r.id = ao[i].orderId => r.status = ao[i].arg
            /\ OnlyFieldChanged(ao[i].orders, orders', ao[i].orderId, "status")
            /\ ao[i].orders = orders =>
                  OnlyFieldChanged(orders, orders', ao[i].orderId, "status")

C23_SetStatusUnconstrained == [][C23_Step]_vars

C23_Witness ==
    /\ Len(ao) = 2
    /\ \A i \in 1..2 :
          /\ ao[i].op = "setStatus"
          /\ ao[i].outcome = "success"
    /\ ao[1].orderId = ao[2].orderId
    /\ ao[1].arg = "Delivered"
    /\ OrderOf(ao[2].orders, ao[2].orderId).status = "Delivered"
    /\ ao[2].arg = "Pending"
    /\ OrderOf(orders, ao[2].orderId).status = "Pending"
    /\ \E r \in dbOrders : r.id = ao[2].orderId /\ r.status = "Pending"

\* the order of the list shows the status and the driver its row holds
LocalMatchesRemote(o, r) ==
    /\ o.status = r.status
    /\ IF r.driver_id = NoDriver
       THEN o.driver = "Unassigned"
       ELSE \E d \in DbDrivers : d.profileId = r.driver_id /\ d.name = o.driver

StatusOrDriverOps == {"setStatus", "accept", "assignDriver"}

\* C27: two admin mutations on different orders (setStatus, accept or
\* assignDriver) that were in flight together and both succeeded leave, once
\* both are complete, a list in which each order's status and driver are the
\* ones written to its row.
C27_NoLostUpdate ==
    \A i, j \in 1..Len(ao) :
        (/\ i # j
         /\ ao[i].op \in StatusOrDriverOps /\ ao[j].op \in StatusOrDriverOps
         /\ ao[i].orderId # ao[j].orderId
         /\ ao[i].pc = "done" /\ ao[i].outcome = "success"
         /\ ao[j].pc = "done" /\ ao[j].outcome = "success"
         /\ \A k \in 1..Len(ao) : ao[k].pc = "done"
         /\ ao[i].orders = ao[j].orders) =>
            \A k \in 1..Len(orders) : \A r \in dbOrders :
                r.id = orders[k].id => LocalMatchesRemote(orders[k], r)

\* this step is a call of handleCheckout after an earlier checkout has ended
NextCheckoutCalled ==
    /\ co.pc = "done"
    /\ co'.pc = "getUser"

\* C28: the order numbers the checkouts of one session generate are pairwise
\* distinct, whatever the admin deleted or reloaded in between: a checkout
\* never generates the number of the checkout before it.
C28_Step ==
    NextCheckoutCalled =>
        OrderNumber(co'.ordersLength) # co.order[1].orderId

C28_DistinctOrderNumbers == [][C28_Step]_vars

\* what request i created is still in the store
UserRemains(i) == server.reqs[i].userId \in accounts.users
ProfileRemains(i) == \E r \in accounts.profiles : r.id = server.reqs[i].userId
DriverRemains(i) == \E r \in accounts.drivers : r.profile_id = server.reqs[i].userId

\* C24: the Express /create-driver route creates nothing unless the request's
\* x-admin-secret header equals a configured ADMIN_SECRET: with the header
\* missing or different, or ADMIN_SECRET not set, the response is 401, no call
\* to the store is issued and no auth user, profile or driver row is created.
C24_SecretRequired ==
    \A i \in 1..Len(server.reqs) :
        LET rq == server.reqs[i]
        IN (/\ rq.kind = "express"
            /\ \/ server.ADMIN_SECRET = Undefined
               \/ rq.header = Undefined
               \/ rq.header # server.ADMIN_SECRET) =>
               /\ rq.status = 401
               /\ rq.issued = <<>>
               /\ ~UserRemains(i) /\ ~ProfileRemains(i) /\ ~DriverRemains(i)

C24_Witness ==
    /\ server.ADMIN_SECRET = Undefined
    /\ Len(server.reqs) = 2
    /\ server.reqs[1].kind = "express"
    /\ server.reqs[1].header = Undefined
    /\ server.reqs[1].fields
    /\ server.reqs[1].status = 401
    /\ server.reqs[2].kind = "express"
    /\ server.reqs[2].header = "wrong"
    /\ server.reqs[2].status = 401

\* the calls of request i that create something, in the order it issued them
Creations(i) ==
    SelectSeq(server.reqs[i].issued, LAMBDA c : c.op = "insert")
CreationOrder(uid) ==
    <<Call("insert", "auth.users", uid), Call("insert", "profiles", uid),
      Call("insert", "drivers", uid)>>

\* C25: a create-driver request creates the auth user, then the profile row,
\* then the drivers row, and after a request that was answered with an error
\* none of the three it created remains.
C25_AllOrNothing ==
    \A i \in 1..Len(server.reqs) :
        LET rq == server.reqs[i]
        IN /\ Creations(i) = SubSeq(CreationOrder(rq.userId), 1, Len(Creations(i)))
           /\ (rq.pc = "done" /\ rq.status >= 400) =>
                 ~UserRemains(i) /\ ~ProfileRemains(i) /\ ~DriverRemains(i)

\* every cart service call made so far came back without an error
NoCallFailed ==
    \A k \in 1..Len(opLog) : \A c \in 1..Len(opLog[k].calls) : opLog[k].calls[c].ok

\* C26: for a signed-in user and a store in which no call fails, once every
\* add, updateQuantity and remove issued so far has completed, the user's rows
\* of the remote cart hold the product ids and quantities of the local cart.
C26_RemoteEqualsLocal ==
    (HasUserId(userId) /\ NoCallFailed) =>
        {r \in dbCart : r.user_id = userId} = CartRows(userId, cartItems)

\* the effect of CartPage runs in this step
EffectRuns ==
    /\ cartPage.mounted
    /\ cartPage'.cartItems # cartPage.cartItems

\* C29: on the cart page an item the user deselected stays deselected when
\* the cart changes without adding it; only product ids new to the cart become
\* selected by themselves, and the selected set is within the ids of the cart.
C29_Step ==
    EffectRuns =>
        /\ \A id \in IdsOf(cartPage.cartItems) \cap IdsOf(cartItems) :
              id \notin cartPage.selectedItems => id \notin cartPage'.selectedItems
        /\ cartPage'.selectedItems \ cartPage.selectedItems
              \subseteq IdsOf(cartItems) \ IdsOf(cartPage.cartItems)
        /\ cartPage'.selectedItems \subseteq IdsOf(cartItems)

C29_DeselectedStays == [][C29_Step]_vars

\* the checkout ends in its catch block in this step
FallbackStep ==
    /\ co.pc # "done"
    /\ co'.pc = "done"
    /\ co'.outcome # "success"

\* the last checkout ended in the fallback
EndedInFallback == co.pc = "done" /\ co.outcome # "success"

\* the lines of the cart the last checkout took
TakenLines == LinesOfSelection(co.cart, co.sel)

\* the load of this step got both its selects answered
LoadSucceeded ==
    /\ LoadStep
    /\ ~CartFetchFailed(Last(opLog'))
    /\ ~ProductsFetchFailed(Last(opLog'))

\* C30: a checkout that ends in the fallback removes the selected lines from
\* the local cart only: it issues no delete to the remote cart, the remote
\* cart keeps its rows, and the next load after signing in again (a load
\* whose selects are answered) puts the lines back into the local cart.
C30_Step ==
    /\ FallbackStep =>
          /\ cartItems' = LinesOutside(cartItems, co.sel)
          /\ dbCart' = dbCart
          /\ \A i \in 1..Len(co'.issued) : co'.issued[i].table # "carts"
    /\ (EndedInFallback /\ LoadSucceeded /\ userId' = co.userId) =>
          \A k \in 1..Len(TakenLines) : \E j \in 1..Len(cartItems') :
              /\ cartItems'[j].product.id = TakenLines[k].product.id
              /\ cartItems'[j].quantity = TakenLines[k].quantity

C30_FallbackKeepsRemoteCart == [][C30_Step]_vars

C30_Witness ==
    /\ EndedInFallback
    /\ co.outcome = "itemsInsertFailed"
    /\ Len(opLog) = 2
    /\ opLog[1].op = "logout"
    /\ opLog[2].op = "login"
    /\ Len(co.cart) = 2
    /\ Cardinality(co.sel) = 1
    /\ cartItems = co.cart
====
